---- MODULE Spec2Model ----
(***************************************************************************)
(* Reference extraction of breadbreadbread/downloader: the fallback        *)
(* manager (src/extractor/fallbacks.py), the reference segmenters          *)
(* (src/extractor/pdf_extractor.py, src/extractor/web_extractor.py), the   *)
(* identifier extractors (src/utils.py, src/extractor/parser.py) and the   *)
(* layout-aware text orderer (src/extractor/pdf/layout.py).                *)
(*                                                                         *)
(* Python strings are sequences of one-character strings.  A Python None   *)
(* in a string field is the value None below, a None year is NoneYear.     *)
(***************************************************************************)
EXTENDS Integers, Sequences, FiniteSets, TLC

VARIABLES
    pc,                 \* position inside apply_fallbacks
    references,         \* result.references
    total_references,   \* result.total_references
    extraction_errors,  \* result.extraction_errors
    entry,              \* the result as it was when apply_fallbacks was entered
    cfg,                \* the manager's configuration (fallbacks.py:29-32)
    source_type,        \* 'pdf' or 'web'
    pdf_object,         \* truthiness of the pdf_object argument
    html_content,       \* truthiness of the html_content argument
    fallback_results,   \* local list of apply_fallbacks
    existing_refs_set,  \* local fingerprint set of apply_fallbacks
    invoked,            \* stages whose extractor has been called in this call
    raised,             \* stages whose extractor raised (and caught) an exception
    added,              \* stages that contributed at least one new reference
    dropped,            \* candidates _deduplicate_references rejected in this call
    doc,                \* what the three extractors return for the document, when it is known
    faults,             \* whether the PDF and HTML collaborators can raise
    run,                \* 1 for the first run over the document, 2 for the repeated run
    first_run           \* result.references at the end of the first run

fbvars == <<pc, references, total_references, extraction_errors, entry, cfg,
            source_type, pdf_object, html_content, fallback_results,
            existing_refs_set, invoked, raised, added, dropped, doc, faults,
            run, first_run>>

VARIABLES
    seg_text,           \* the text given to _split_references
    seg_who,            \* which extractor has split it: "none", "pdf" or "web"
    seg_method,         \* the strategy that produced the result
    seg_refs            \* the list _split_references returned

segvars == <<seg_text, seg_who, seg_method, seg_refs>>

VARIABLES
    par_input,          \* the parts of the text given to parse_reference
    par_state,          \* "none", "parsed" or "rejected" (parse_reference returned None)
    par_ref             \* the Reference parse_reference returned

parvars == <<par_input, par_state, par_ref>>

VARIABLES
    lay_words,          \* the words given to _order_text_by_columns
    lay_page_width,     \* page.width
    lay_state,          \* "none" or "ordered"
    lay_columns,        \* the lines of each column, in the order they are written
    lay_text            \* the text _order_text_by_columns returned

layvars == <<lay_words, lay_page_width, lay_state, lay_columns, lay_text>>

VARIABLES
    bib_input,          \* the parts of the BibTeX entry given to the parsers
    bib_who,            \* which parser has read it: "none", "manager" or "parser"
    bib_ref             \* what the parser returned

bibvars == <<bib_input, bib_who, bib_ref>>

VARIABLES
    tab_input,          \* the rows of the table given to the classifiers
    tab_who,            \* which classifier has run: "none", "fallbacks" or "pdf"
    tab_result          \* what the classifier returned

tabvars == <<tab_input, tab_who, tab_result>>

VARIABLES
    ext_input,          \* the source given to extract and what the collaborators do with it
    ext_state,          \* "ready", then "returned" or "raised"
    ext_result,         \* the ExtractionResult of the call
    ext_invoked         \* the fallback methods the call has called

extvars == <<ext_input, ext_state, ext_result, ext_invoked>>

VARIABLES
    http_client,        \* how the HTTPClient was constructed
    http_pc,            \* "ready" while request loops, then "returned" or "raised"
    http_attempt,       \* attempt of the loop of request (0 before the first)
    http_delay,         \* delay of request, in tenths of a second
    http_agent,         \* the position of the user-agent cycle and the session's User-Agent header
    http_calls,         \* the calls of session.request so far: header sent, sleep before it, outcome
    http_last           \* last_response (its status) and whether last_exception is set

httpvars == <<http_client, http_pc, http_attempt, http_delay, http_agent, http_calls, http_last>>

VARIABLES
    dl_pc,              \* "idle", "loop" inside _try_downloaders, then "returned" or "raised"
    dl_index,           \* the position of the loop in self.downloaders
    dl_log,             \* what happened with each downloader tried so far
    dl_result           \* the DownloadResult returned

dlvars == <<dl_pc, dl_index, dl_log, dl_result>>

VARIABLES
    fp_case,            \* a reference, with the pieces its fingerprint is expected to be made of
    fp_accepted,        \* the fingerprints _create_reference_fingerprint_set gives for it
    fp_candidate,       \* the fingerprints _deduplicate_references adds to an empty set for it
    fp_done             \* which of the two functions have been applied

fpvars == <<fp_case, fp_accepted, fp_candidate, fp_done>>

VARIABLES
    cand_in,            \* a candidate block, with what its parts are known to contain
    cand_result         \* "none", then "accepted" or "rejected" by _is_valid_reference_candidate

candvars == <<cand_in, cand_result>>

VARIABLES
    pg_case,            \* the lines the page was composed of, with what each is known to contain
    pg_words,           \* the words of the page, as pdfplumber gives them
    pg_width,           \* page.width
    pg_op,              \* "none", then the step applied: "lines", "columns" or "captions"
    pg_result           \* what the step returned

pgvars == <<pg_case, pg_words, pg_width, pg_op, pg_result>>

VARIABLES
    blk_case,           \* the pieces the text is made of, each with the blocks it holds
    blk_who,            \* "none", then "parser" (extract_bibtex_blocks) or "manager" (_extract_from_bibtex)
    blk_blocks          \* the blocks found, in the order returned

blkvars == <<blk_case, blk_who, blk_blocks>>

vars == <<fbvars, segvars, parvars, layvars, bibvars, tabvars, extvars, httpvars, dlvars, fpvars, candvars, pgvars, blkvars>>

\* what each part of the program leaves alone
nonfbvars == <<segvars, parvars, layvars, bibvars, tabvars, extvars, httpvars, dlvars, fpvars, candvars, pgvars, blkvars>>
nonsegvars == <<fbvars, parvars, layvars, bibvars, tabvars, extvars, httpvars, dlvars, fpvars, candvars, pgvars, blkvars>>
nonparvars == <<fbvars, segvars, layvars, bibvars, tabvars, extvars, httpvars, dlvars, fpvars, candvars, pgvars, blkvars>>
nonlayvars == <<fbvars, segvars, parvars, bibvars, tabvars, extvars, httpvars, dlvars, fpvars, candvars, pgvars, blkvars>>
nonbibvars == <<fbvars, segvars, parvars, layvars, tabvars, extvars, httpvars, dlvars, fpvars, candvars, pgvars, blkvars>>
nontabvars == <<fbvars, segvars, parvars, layvars, bibvars, extvars, httpvars, dlvars, fpvars, candvars, pgvars, blkvars>>
nonextvars == <<fbvars, segvars, parvars, layvars, bibvars, tabvars, httpvars, dlvars, fpvars, candvars, pgvars, blkvars>>
nonhttpvars == <<fbvars, segvars, parvars, layvars, bibvars, tabvars, extvars, dlvars, fpvars, candvars, pgvars, blkvars>>
nondlvars == <<fbvars, segvars, parvars, layvars, bibvars, tabvars, extvars, httpvars, fpvars, candvars, pgvars, blkvars>>
nonfpvars == <<fbvars, segvars, parvars, layvars, bibvars, tabvars, extvars, httpvars, dlvars, candvars, pgvars, blkvars>>
noncandvars == <<fbvars, segvars, parvars, layvars, bibvars, tabvars, extvars, httpvars, dlvars, fpvars, pgvars, blkvars>>
nonpgvars == <<fbvars, segvars, parvars, layvars, bibvars, tabvars, extvars, httpvars, dlvars, fpvars, candvars, blkvars>>
nonblkvars == <<fbvars, segvars, parvars, layvars, bibvars, tabvars, extvars, httpvars, dlvars, fpvars, candvars, pgvars>>

----------------------------------------------------------------------------
(* Characters and Python string helpers *)

NL == "\n"
SP == " "
None == <<"<None>">>
NoneYear == -1

Whitespace == {SP, NL, "\t"}

\* str.lower() on ASCII characters
LowerChar(c) ==
    LET upper == <<"A", "B", "C", "D", "E", "F", "G", "H", "I", "J", "K", "L", "M",
                   "N", "O", "P", "Q", "R", "S", "T", "U", "V", "W", "X", "Y", "Z">>
        lower == <<"a", "b", "c", "d", "e", "f", "g", "h", "i", "j", "k", "l", "m",
                   "n", "o", "p", "q", "r", "s", "t", "u", "v", "w", "x", "y", "z">>
        at == {k \in 1..Len(upper) : upper[k] = c}
    IN  IF at = {} THEN c ELSE lower[CHOOSE k \in at : TRUE]

Lower(s) == [i \in 1..Len(s) |-> LowerChar(s[i])]

\* s[:n]
Take(s, n) == IF Len(s) <= n THEN s ELSE SubSeq(s, 1, n)

\* str.strip()
RECURSIVE LStrip(_)
LStrip(s) == IF s # <<>> /\ Head(s) \in Whitespace THEN LStrip(Tail(s)) ELSE s

RECURSIVE RStrip(_)
RStrip(s) ==
    IF s # <<>> /\ s[Len(s)] \in Whitespace
    THEN RStrip(SubSeq(s, 1, Len(s) - 1))
    ELSE s

Strip(s) == RStrip(LStrip(s))

\* re.sub(r'\s+', ' ', s)
CollapseWs(s) ==
    LET kept == {i \in 1..Len(s) : s[i] \notin Whitespace \/ i = 1 \/ s[i - 1] \notin Whitespace}
        At(k) == CHOOSE i \in kept : Cardinality({j \in kept : j <= i}) = k
    IN  [k \in 1..Cardinality(kept) |-> IF s[At(k)] \in Whitespace THEN SP ELSE s[At(k)]]

\* Python truthiness of an Optional[str] and of an Optional[int]
TruthyStr(s) == s # None /\ s # <<>>
TruthyInt(n) == n # NoneYear /\ n # 0

----------------------------------------------------------------------------
(* src/models.py: Reference, ExtractionResult; src/config.py: settings *)

FALLBACK_MIN_REFERENCE_THRESHOLD == 3
RawFingerprintLen == 100

\* bounds of the model
MaxPrimary == 3      \* longest primary reference list
MaxCand == 2         \* longest list one fallback extractor returns
RerunMaxCand == 1    \* the same, for documents processed twice

Reference(raw, doi, title, year) ==
    [raw_text |-> raw, doi |-> doi, title |-> title, year |-> year]

\* The references the extractors can produce: two whose DOIs differ only in
\* letter case, two whose titles differ only in case and whitespace, and one
\* that has neither a DOI nor a title.
RefDoiUpper == Reference(<<"A", "1">>, <<"D", "A">>, None, NoneYear)
RefDoiLower == Reference(<<"b", "2">>, <<"d", "a">>, <<"T">>, 2023)
RefTitle    == Reference(<<"t", "3">>, None, <<"T", SP, "a">>, 2023)
RefTitleWs  == Reference(<<"r", "4">>, None, <<SP, "t", SP, SP, "A">>, 2023)
RefRaw      == Reference(<<"R", SP, "a">>, None, None, NoneYear)

RefPool == {RefDoiUpper, RefDoiLower, RefTitle, RefTitleWs, RefRaw}

\* the references the primary extraction found
PrimaryPool == {RefDoiUpper, RefTitle, RefRaw}

RECURSIVE SeqsUpTo(_, _)
SeqsUpTo(S, n) ==
    IF n = 0 THEN {<<>>}
    ELSE LET shorter == SeqsUpTo(S, n - 1)
         IN  shorter \cup {Append(q, x) : q \in {r \in shorter : Len(r) = n - 1}, x \in S}

Stages == {"table", "bibtex", "html"}

----------------------------------------------------------------------------
(* src/extractor/fallbacks.py: fingerprints and de-duplication *)

\* a fingerprint that keeps the letter case of the DOI
Fingerprint_CaseSensitiveDoi(ref) ==
    IF TruthyStr(ref.doi)
    THEN <<"doi:", ref.doi>>
    ELSE IF TruthyStr(ref.title) /\ TruthyInt(ref.year)
         THEN <<"title_year:", CollapseWs(Strip(Lower(ref.title))), ref.year>>
         ELSE <<"raw:", CollapseWs(Take(Strip(Lower(ref.raw_text)), RawFingerprintLen))>>

\* the fingerprint string built at fallbacks.py:456-464;
\* the three prefixes keep the three kinds of fingerprint apart
Fingerprint(ref) ==
    IF TruthyStr(ref.doi)
    THEN <<"doi:", Lower(ref.doi)>>
    ELSE IF TruthyStr(ref.title) /\ TruthyInt(ref.year)
         THEN <<"title_year:", CollapseWs(Strip(Lower(ref.title))), ref.year>>
         ELSE <<"raw:", CollapseWs(Take(Strip(Lower(ref.raw_text)), RawFingerprintLen))>>

\* a fingerprint set that is built from the raw texts alone
_create_reference_fingerprint_set_RawOnly(refs) ==
    {<<"raw:", CollapseWs(Take(Strip(Lower(refs[i].raw_text)), RawFingerprintLen))>> :
        i \in 1..Len(refs)}

\* fallbacks.py:450-466
_create_reference_fingerprint_set(refs) ==
    {Fingerprint(refs[i]) : i \in 1..Len(refs)}

\* a candidate fingerprint that cuts raw_text before it strips it
CandidateFingerprint_TruncateFirst(ref) ==
    IF TruthyStr(ref.doi)
    THEN <<"doi:", Lower(ref.doi)>>
    ELSE IF TruthyStr(ref.title) /\ TruthyInt(ref.year)
         THEN <<"title_year:", CollapseWs(Strip(Lower(ref.title))), ref.year>>
         ELSE <<"raw:", CollapseWs(Strip(Lower(Take(ref.raw_text, RawFingerprintLen))))>>

\* the fingerprint _deduplicate_references builds for a candidate
\* (fallbacks.py:478-485), written out a second time in the source
CandidateFingerprint(ref) ==
    IF TruthyStr(ref.doi)
    THEN <<"doi:", Lower(ref.doi)>>
    ELSE IF TruthyStr(ref.title) /\ TruthyInt(ref.year)
         THEN <<"title_year:", CollapseWs(Strip(Lower(ref.title))), ref.year>>
         ELSE <<"raw:", CollapseWs(Take(Strip(Lower(ref.raw_text)), RawFingerprintLen))>>

\* returns the unique references and the fingerprint set as the loop leaves it
RECURSIVE _deduplicate_references_NoUpdate(_, _)
_deduplicate_references_NoUpdate(new_references, existing_fingerprints) ==
    IF new_references = <<>>
    THEN [unique_refs |-> <<>>, fingerprints |-> existing_fingerprints]
    ELSE LET ref == Head(new_references)
             seen == CandidateFingerprint(ref) \in existing_fingerprints
             rest == _deduplicate_references_NoUpdate(Tail(new_references),
                                                      existing_fingerprints)
         IN  [unique_refs |-> IF seen THEN rest.unique_refs
                                      ELSE <<ref>> \o rest.unique_refs,
              fingerprints |-> rest.fingerprints]

RECURSIVE _deduplicate_references(_, _)
_deduplicate_references(new_references, existing_fingerprints) ==
    IF new_references = <<>>
    THEN [unique_refs |-> <<>>, fingerprints |-> existing_fingerprints]
    ELSE LET ref == Head(new_references)
             fingerprint == CandidateFingerprint(ref)
             seen == fingerprint \in existing_fingerprints
             rest == _deduplicate_references(
                         Tail(new_references),
                         IF seen THEN existing_fingerprints
                                 ELSE existing_fingerprints \cup {fingerprint})
         IN  [unique_refs |-> IF seen THEN rest.unique_refs
                                      ELSE <<ref>> \o rest.unique_refs,
              fingerprints |-> rest.fingerprints]

----------------------------------------------------------------------------
(* src/extractor/fallbacks.py: ExtractionFallbackManager.apply_fallbacks *)

\* the method the manager calls at fallbacks.py:135; its body is not in
\* fallbacks.py, the trigger is the one the specification states
should_trigger_fallbacks(refs) ==
    Len(refs) < cfg.min_reference_threshold

\* the lists an extractor can return for a document
CandLists == SeqsUpTo(RefPool, MaxCand)
ExtractorOutputs(stage) ==
    IF doc.known THEN {doc[stage]} ELSE CandLists

\* an extractor catches the exceptions of its collaborators
\* (fallbacks.py:199-221, 286-300, 389-430), logs them and returns the
\* references it had gathered, so an exception changes nothing but the list
\* the stage receives
ExtractorRaises(stage) ==
    IF faults THEN BOOLEAN ELSE {FALSE}

\* an entry that forgets the early return of fallbacks.py:135-136
Enter_NoGate ==
    /\ pc = "start"
    /\ pc' = "table"
    /\ fallback_results' = <<>>
    /\ existing_refs_set' = _create_reference_fingerprint_set(references)
    /\ UNCHANGED <<references, total_references, extraction_errors, entry, cfg,
                   source_type, pdf_object, html_content, invoked, raised,
                   added, dropped, doc, faults, run, first_run>>
    /\ UNCHANGED nonfbvars

\* fallbacks.py:135-141
Enter ==
    /\ pc = "start"
    /\ IF ~should_trigger_fallbacks(references)
       THEN /\ pc' = "done"
            /\ UNCHANGED <<fallback_results, existing_refs_set>>
       ELSE /\ pc' = "table"
            /\ fallback_results' = <<>>
            /\ existing_refs_set' = _create_reference_fingerprint_set(references)
    /\ UNCHANGED <<references, total_references, extraction_errors, entry, cfg,
                   source_type, pdf_object, html_content, invoked, raised,
                   added, dropped, doc, faults, run, first_run>>
    /\ UNCHANGED nonfbvars

\* the candidates of refs that _deduplicate_references leaves out
Rejected(refs, existing_fingerprints) ==
    LET unique == _deduplicate_references(refs, existing_fingerprints).unique_refs
        Count(q, r) == Cardinality({i \in 1..Len(q) : q[i] = r})
    IN  {refs[i] : i \in {k \in 1..Len(refs) : Count(refs, refs[k]) > Count(unique, refs[k])}}

\* a stage that stays silent when every candidate it found was a duplicate
RunStage_SilentDuplicates(stage, refs, exc, msg_no_new, msg_none) ==
    /\ invoked' = invoked \cup {stage}
    /\ dropped' = dropped \cup Rejected(refs, existing_refs_set)
    /\ raised' = IF exc THEN raised \cup {stage} ELSE raised
    /\ IF refs # <<>>
       THEN LET d == _deduplicate_references(refs, existing_refs_set)
                new_refs == d.unique_refs
            IN  IF new_refs # <<>>
                THEN /\ fallback_results' = fallback_results \o new_refs
                     /\ existing_refs_set' =
                            d.fingerprints \cup _create_reference_fingerprint_set(new_refs)
                     /\ added' = added \cup {stage}
                     /\ UNCHANGED extraction_errors
                ELSE /\ existing_refs_set' = d.fingerprints
                     /\ UNCHANGED <<fallback_results, added, extraction_errors>>
       ELSE /\ extraction_errors' = Append(extraction_errors, msg_none)
            /\ UNCHANGED <<fallback_results, existing_refs_set, added>>

\* the body shared by the three stages (fallbacks.py:145-155, 159-169, 173-183)
RunStage(stage, refs, exc, msg_no_new, msg_none) ==
    /\ invoked' = invoked \cup {stage}
    /\ dropped' = dropped \cup Rejected(refs, existing_refs_set)
    /\ raised' = IF exc THEN raised \cup {stage} ELSE raised
    /\ IF refs # <<>>
       THEN LET d == _deduplicate_references(refs, existing_refs_set)
                new_refs == d.unique_refs
            IN  IF new_refs # <<>>
                THEN /\ fallback_results' = fallback_results \o new_refs
                     /\ existing_refs_set' =
                            d.fingerprints \cup _create_reference_fingerprint_set(new_refs)
                     /\ added' = added \cup {stage}
                     /\ UNCHANGED extraction_errors
                ELSE /\ extraction_errors' = Append(extraction_errors, msg_no_new)
                     /\ existing_refs_set' = d.fingerprints
                     /\ UNCHANGED <<fallback_results, added>>
       ELSE /\ extraction_errors' = Append(extraction_errors, msg_none)
            /\ UNCHANGED <<fallback_results, existing_refs_set, added>>

SkipStage ==
    UNCHANGED <<fallback_results, existing_refs_set, extraction_errors,
                invoked, raised, added, dropped>>

\* fallbacks.py:143-155
TableStage ==
    /\ pc = "table"
    /\ pc' = "bibtex"
    /\ IF source_type = "pdf" /\ cfg.enable_table_fallback /\ pdf_object
       THEN \E refs \in ExtractorOutputs("table"), exc \in ExtractorRaises("table") :
                RunStage("table", refs, exc,
                         "Table fallback: No new unique references found",
                         "Table fallback: No reference tables detected")
       ELSE SkipStage
    /\ UNCHANGED <<references, total_references, entry, cfg, source_type,
                   pdf_object, html_content, doc, faults, run, first_run>>
    /\ UNCHANGED nonfbvars

\* fallbacks.py:157-169
BibtexStage ==
    /\ pc = "bibtex"
    /\ pc' = "html"
    /\ IF cfg.enable_bibtex_fallback
       THEN \E refs \in ExtractorOutputs("bibtex"), exc \in ExtractorRaises("bibtex") :
                RunStage("bibtex", refs, exc,
                         "BibTeX fallback: No new unique references found",
                         "BibTeX fallback: No BibTeX blocks detected")
       ELSE SkipStage
    /\ UNCHANGED <<references, total_references, entry, cfg, source_type,
                   pdf_object, html_content, doc, faults, run, first_run>>
    /\ UNCHANGED nonfbvars

\* fallbacks.py:171-183
HtmlStage ==
    /\ pc = "html"
    /\ pc' = "merge"
    /\ IF source_type = "web" /\ cfg.enable_html_structure_fallback /\ html_content
       THEN \E refs \in ExtractorOutputs("html"), exc \in ExtractorRaises("html") :
                RunStage("html", refs, exc,
                         "HTML structure fallback: No new unique references found",
                         "HTML structure fallback: No structured citation elements found")
       ELSE SkipStage
    /\ UNCHANGED <<references, total_references, entry, cfg, source_type,
                   pdf_object, html_content, doc, faults, run, first_run>>
    /\ UNCHANGED nonfbvars

\* a merge that takes the fallback references in the order a set of them
\* happens to be iterated in
Merge_SetOrder ==
    /\ pc = "merge"
    /\ pc' = "done"
    /\ IF fallback_results # <<>>
       THEN /\ \E order \in [1..Len(fallback_results) -> 1..Len(fallback_results)] :
                   /\ \A a, b \in DOMAIN order : a # b => order[a] # order[b]
                   /\ references' = references \o
                          [k \in 1..Len(fallback_results) |-> fallback_results[order[k]]]
            /\ total_references' = Len(references')
            /\ UNCHANGED extraction_errors
       ELSE /\ extraction_errors' =
                   Append(extraction_errors,
                          "All fallback strategies failed to extract new references")
            /\ UNCHANGED <<references, total_references>>
    /\ UNCHANGED <<entry, cfg, source_type, pdf_object, html_content,
                   fallback_results, existing_refs_set, invoked, raised, added,
                   dropped, doc, faults, run, first_run>>
    /\ UNCHANGED nonfbvars

\* a merge that puts the fallback references in front of the primary ones
Merge_Prepend ==
    /\ pc = "merge"
    /\ pc' = "done"
    /\ IF fallback_results # <<>>
       THEN /\ references' = fallback_results \o references
            /\ total_references' = Len(references')
            /\ UNCHANGED extraction_errors
       ELSE /\ extraction_errors' =
                   Append(extraction_errors,
                          "All fallback strategies failed to extract new references")
            /\ UNCHANGED <<references, total_references>>
    /\ UNCHANGED <<entry, cfg, source_type, pdf_object, html_content,
                   fallback_results, existing_refs_set, invoked, raised, added,
                   dropped, doc, faults, run, first_run>>
    /\ UNCHANGED nonfbvars

\* fallbacks.py:185-193
Merge ==
    /\ pc = "merge"
    /\ pc' = "done"
    /\ IF fallback_results # <<>>
       THEN /\ references' = references \o fallback_results
            /\ total_references' = Len(references')
            /\ UNCHANGED extraction_errors
       ELSE /\ extraction_errors' =
                   Append(extraction_errors,
                          "All fallback strategies failed to extract new references")
            /\ UNCHANGED <<references, total_references>>
    /\ UNCHANGED <<entry, cfg, source_type, pdf_object, html_content,
                   fallback_results, existing_refs_set, invoked, raised, added,
                   dropped, doc, faults, run, first_run>>
    /\ UNCHANGED nonfbvars

\* the arguments a caller can pass: any primary list; a result filled in by an
\* extractor (total_references set with the list, pdf_extractor.py:77-78) or
\* one whose list was assigned while total_references stayed at the field
\* default 0 (models.py:101) and that already carries a diagnostic; any
\* configuration of the three switches
Configs ==
    [min_reference_threshold : {FALLBACK_MIN_REFERENCE_THRESHOLD},
     enable_table_fallback : BOOLEAN,
     enable_bibtex_fallback : BOOLEAN,
     enable_html_structure_fallback : BOOLEAN]

UnknownDoc == [known |-> FALSE, table |-> <<>>, bibtex |-> <<>>, html |-> <<>>]

\* no text is being segmented
IdleSegmenter ==
    /\ seg_text = <<>>
    /\ seg_who = "none"
    /\ seg_method = "none"
    /\ seg_refs = <<>>

\* no text is being parsed
IdleParser ==
    /\ par_input = [head |-> <<>>]
    /\ par_state = "none"
    /\ par_ref = [raw_text |-> None, doi |-> None, year |-> NoneYear]

\* no page is being ordered
IdleLayout ==
    /\ lay_words = <<>>
    /\ lay_page_width = 0
    /\ lay_state = "none"
    /\ lay_columns = <<>>
    /\ lay_text = <<>>

\* no BibTeX entry is being parsed
IdleBibtex ==
    /\ bib_input = [type |-> <<>>]
    /\ bib_who = "none"
    /\ bib_ref = [returned |-> FALSE]

\* no table is being classified
IdleTables ==
    /\ tab_input = [first |-> <<>>]
    /\ tab_who = "none"
    /\ tab_result = FALSE

\* PDFExtractor.extract and WebExtractor.extract are not being called
IdleExtractors ==
    /\ ext_input = [who |-> "none"]
    /\ ext_state = "ready"
    /\ ext_result = [references |-> <<>>, total_references |-> 0, extraction_errors |-> <<>>]
    /\ ext_invoked = {}

\* HTTPClient.request is not being called
IdleHttp ==
    /\ http_client = [n_agents |-> 0]
    /\ http_pc = "ready"
    /\ http_attempt = 0
    /\ http_delay = 0
    /\ http_agent = [index |-> 0, header |-> ""]
    /\ http_calls = <<>>
    /\ http_last = [status |-> 0, exception |-> FALSE]

\* DownloadCoordinator._try_downloaders is not being called
IdleCoordinator ==
    /\ dl_pc = "idle"
    /\ dl_index = 1
    /\ dl_log = <<>>
    /\ dl_result = [status |-> "none", source |-> "none", error_message |-> ""]

\* no fingerprint is being computed on its own
IdleFingerprints ==
    /\ fp_case = [none |-> TRUE]
    /\ fp_accepted = {}
    /\ fp_candidate = {}
    /\ fp_done = {}

\* no candidate is being filtered
IdleCandidates ==
    /\ cand_in = [none |-> TRUE]
    /\ cand_result = "none"

\* no step of the page layout is being applied on its own
IdlePage ==
    /\ pg_case = <<>>
    /\ pg_words = <<>>
    /\ pg_width = 0
    /\ pg_op = "none"
    /\ pg_result = <<>>

\* no text is being searched for BibTeX blocks
IdleBlocks ==
    /\ blk_case = <<>>
    /\ blk_who = "none"
    /\ blk_blocks = <<>>

InitCall(primary, total, errs) ==
    /\ IdleSegmenter
    /\ IdleParser
    /\ IdleLayout
    /\ IdleBibtex
    /\ IdleTables
    /\ IdleExtractors
    /\ IdleHttp
    /\ IdleCoordinator
    /\ IdleFingerprints
    /\ IdleCandidates
    /\ IdlePage
    /\ IdleBlocks
    /\ pc = "start"
    /\ references = primary
    /\ total_references = total
    /\ extraction_errors = errs
    /\ entry = [references |-> primary, total_references |-> total,
                extraction_errors |-> errs]
    /\ fallback_results = <<>>
    /\ existing_refs_set = {}
    /\ invoked = {}
    /\ raised = {}
    /\ added = {}
    /\ dropped = {}

Init ==
    /\ \E primary \in SeqsUpTo(PrimaryPool, MaxPrimary) :
          \/ InitCall(primary, Len(primary), <<>>)
          \/ InitCall(primary, 0, <<"primary extraction warning">>)
    /\ cfg \in Configs
    /\ \/ source_type = "pdf" /\ pdf_object \in BOOLEAN /\ html_content = FALSE
       \/ source_type = "web" /\ html_content \in BOOLEAN /\ pdf_object = FALSE
    /\ doc = UnknownDoc
    /\ faults = FALSE
    /\ run = 1
    /\ first_run = <<>>

Next ==
    \/ Enter
    \/ TableStage
    \/ BibtexStage
    \/ HtmlStage
    \/ Merge

Spec == Init /\ [][Next]_vars

\* the same calls when the collaborators can raise
InitFaults ==
    /\ \E primary \in SeqsUpTo(PrimaryPool, MaxPrimary) :
          \/ InitCall(primary, Len(primary), <<>>)
          \/ InitCall(primary, 0, <<"primary extraction warning">>)
    /\ cfg \in Configs
    /\ \/ source_type = "pdf" /\ pdf_object \in BOOLEAN /\ html_content = FALSE
       \/ source_type = "web" /\ html_content \in BOOLEAN /\ pdf_object = FALSE
    /\ doc = UnknownDoc
    /\ faults = TRUE
    /\ run = 1
    /\ first_run = <<>>

SpecFaults == InitFaults /\ [][Next]_vars

----------------------------------------------------------------------------
(* The same document processed twice *)

\* config.py:54-57
DefaultConfig ==
    [min_reference_threshold |-> FALLBACK_MIN_REFERENCE_THRESHOLD,
     enable_table_fallback |-> TRUE,
     enable_bibtex_fallback |-> TRUE,
     enable_html_structure_fallback |-> TRUE]

KnownDocs(type) ==
    LET lists == SeqsUpTo(RefPool, RerunMaxCand)
    IN  IF type = "pdf"
        THEN [known : {TRUE}, table : lists, bibtex : lists, html : {<<>>}]
        ELSE [known : {TRUE}, table : {<<>>}, bibtex : lists, html : lists]

InitRerun ==
    /\ \E primary \in SeqsUpTo(PrimaryPool, MaxPrimary) :
          InitCall(primary, Len(primary), <<>>)
    /\ cfg = DefaultConfig
    /\ \/ source_type = "pdf" /\ pdf_object = TRUE /\ html_content = FALSE
       \/ source_type = "web" /\ html_content = TRUE /\ pdf_object = FALSE
    /\ doc \in KnownDocs(source_type)
    /\ faults = FALSE
    /\ run = 1
    /\ first_run = <<>>

\* the caller extracts the same document again: the primary result is the
\* same, and apply_fallbacks is called on it with the same arguments
Rerun ==
    /\ pc = "done"
    /\ run = 1
    /\ run' = 2
    /\ first_run' = references
    /\ pc' = "start"
    /\ references' = entry.references
    /\ total_references' = entry.total_references
    /\ extraction_errors' = entry.extraction_errors
    /\ fallback_results' = <<>>
    /\ existing_refs_set' = {}
    /\ invoked' = {}
    /\ raised' = {}
    /\ added' = {}
    /\ dropped' = {}
    /\ UNCHANGED <<entry, cfg, source_type, pdf_object, html_content, doc, faults>>
    /\ UNCHANGED nonfbvars

\* apply_fallbacks is called again on the result it returned, with the same
\* source_text, source_type, pdf_object and html_content
CallAgain ==
    /\ pc = "done"
    /\ run = 1
    /\ run' = 2
    /\ first_run' = references
    /\ pc' = "start"
    /\ entry' = [references |-> references, total_references |-> total_references,
                 extraction_errors |-> extraction_errors]
    /\ fallback_results' = <<>>
    /\ existing_refs_set' = {}
    /\ invoked' = {}
    /\ raised' = {}
    /\ added' = {}
    /\ dropped' = {}
    /\ UNCHANGED <<references, total_references, extraction_errors, cfg, source_type,
                   pdf_object, html_content, doc, faults>>
    /\ UNCHANGED nonfbvars

NextAgain ==
    \/ Enter
    \/ TableStage
    \/ BibtexStage
    \/ HtmlStage
    \/ Merge
    \/ CallAgain

SpecAgain == InitRerun /\ [][NextAgain]_vars

NextRerun ==
    \/ Enter
    \/ TableStage
    \/ BibtexStage
    \/ HtmlStage
    \/ Merge
    \/ Rerun

SpecRerun == InitRerun /\ [][NextRerun]_vars

----------------------------------------------------------------------------
(* Regular expressions of the segmenters, on sequences of characters *)

Digits == {"0", "1", "2", "3", "4", "5", "6", "7", "8", "9"}

Rep(c, n) == [i \in 1..n |-> c]

\* the first index from i on whose character is not in S (Len(t) + 1 if none)
RECURSIVE SkipSet(_, _, _)
SkipSet(t, i, S) ==
    IF i <= Len(t) /\ t[i] \in S THEN SkipSet(t, i + 1, S) ELSE i

\* the literal lit stands in t at index i
LitAt(t, i, lit) ==
    /\ i + Len(lit) - 1 <= Len(t)
    /\ \A k \in 1..Len(lit) : t[i + k - 1] = lit[k]

\* (?:19|20)\d{2} stands in t at index i
YearAt(t, i) ==
    /\ i + 3 <= Len(t)
    /\ \/ t[i] = "1" /\ t[i + 1] = "9"
       \/ t[i] = "2" /\ t[i + 1] = "0"
    /\ t[i + 2] \in Digits
    /\ t[i + 3] \in Digits

\* Each XxxEnd(t, i) is the index just after the match of the pattern that
\* starts at index i, or 0 when the pattern does not match there.

\* \n\s*\[\d+\]                                   (pdf_extractor.py:231)
BracketEnd(t, i) ==
    IF i <= Len(t) /\ t[i] = NL
    THEN LET j == SkipSet(t, i + 1, Whitespace)
             k == SkipSet(t, j + 1, Digits)
         IN  IF /\ j <= Len(t) /\ t[j] = "["
                /\ k > j + 1
                /\ k <= Len(t) /\ t[k] = "]"
             THEN k + 1
             ELSE 0
    ELSE 0

\* \n\s*\d+\.\s+                                  (pdf_extractor.py:241)
NumberedEnd(t, i) ==
    IF i <= Len(t) /\ t[i] = NL
    THEN LET j == SkipSet(t, i + 1, Whitespace)
             k == SkipSet(t, j, Digits)
         IN  IF /\ k > j
                /\ k <= Len(t) /\ t[k] = "."
                /\ k + 1 <= Len(t) /\ t[k + 1] \in Whitespace
             THEN SkipSet(t, k + 1, Whitespace)
             ELSE 0
    ELSE 0

\* \n\s*\d+\.\s                                   (web_extractor.py:112)
WebNumberedEnd(t, i) ==
    IF i <= Len(t) /\ t[i] = NL
    THEN LET j == SkipSet(t, i + 1, Whitespace)
             k == SkipSet(t, j, Digits)
         IN  IF /\ k > j
                /\ k <= Len(t) /\ t[k] = "."
                /\ k + 1 <= Len(t) /\ t[k + 1] \in Whitespace
             THEN k + 2
             ELSE 0
    ELSE 0

\* \n\s*[-...*]\s   (web_extractor.py:119; the members of the class other
\* than - and * are not ASCII and stand in none of the texts)
BulletEnd(t, i) ==
    IF i <= Len(t) /\ t[i] = NL
    THEN LET j == SkipSet(t, i + 1, Whitespace)
         IN  IF /\ j <= Len(t) /\ t[j] \in {"-", "*"}
                /\ j + 1 <= Len(t) /\ t[j + 1] \in Whitespace
             THEN j + 2
             ELSE 0
    ELSE 0

\* (?:doi|DOI|https?://doi\.org)                  (pdf_extractor.py:252)
DoiLiterals ==
    << <<"d", "o", "i">>,
       <<"D", "O", "I">>,
       <<"h", "t", "t", "p", "s", ":", "/", "/", "d", "o", "i", ".", "o", "r", "g">>,
       <<"h", "t", "t", "p", ":", "/", "/", "d", "o", "i", ".", "o", "r", "g">> >>

DoiEnd(t, i) ==
    LET alts == {a \in 1..Len(DoiLiterals) : LitAt(t, i, DoiLiterals[a])}
    IN  IF alts = {} THEN 0
        ELSE i + Len(DoiLiterals[CHOOSE a \in alts : \A b \in alts : a <= b])

\* \((?:19|20)\d{2}\)|(?:19|20)\d{2}\.            (pdf_extractor.py:263)
YearMarkerEnd(t, i) ==
    IF i <= Len(t) /\ t[i] = "(" /\ YearAt(t, i + 1) /\ i + 5 <= Len(t) /\ t[i + 5] = ")"
    THEN i + 6
    ELSE IF YearAt(t, i) /\ i + 4 <= Len(t) /\ t[i + 4] = "."
         THEN i + 5
         ELSE 0

\* '\n\n' of str.split                            (pdf_extractor.py:273)
BlankEnd(t, i) ==
    IF i + 1 <= Len(t) /\ t[i] = NL /\ t[i + 1] = NL THEN i + 2 ELSE 0

MatchEnd(pat, t, i) ==
    CASE pat = "bracket" -> BracketEnd(t, i)
      [] pat = "numbered" -> NumberedEnd(t, i)
      [] pat = "web_numbered" -> WebNumberedEnd(t, i)
      [] pat = "bullet" -> BulletEnd(t, i)
      [] pat = "doi" -> DoiEnd(t, i)
      [] pat = "year" -> YearMarkerEnd(t, i)
      [] pat = "blank" -> BlankEnd(t, i)

\* re.findall / re.finditer: the non-overlapping matches from left to right,
\* each as <<start, index after the match>>
RECURSIVE FindAll(_, _, _)
FindAll(pat, t, i) ==
    IF i > Len(t) THEN <<>>
    ELSE LET e == MatchEnd(pat, t, i)
         IN  IF e > 0 THEN << <<i, e>> >> \o FindAll(pat, t, e)
                      ELSE FindAll(pat, t, i + 1)

\* the index of the last character of the line that starts at index i
LineEnd(t, i) == SkipSet(t, i, {c \in {t[k] : k \in 1..Len(t)} : c # NL}) - 1

\* (?=\n[^\n]*(?:doi|DOI|https?://doi\.org))      (pdf_extractor.py:251)
DoiLookahead(t, i) ==
    /\ t[i] = NL
    /\ \E j \in (i + 1)..LineEnd(t, i + 1) : DoiEnd(t, j) > 0

\* (?=\n[^\n]*\((?:19|20)\d{2}\)|(?:19|20)\d{2}\.)   (pdf_extractor.py:262)
YearLookahead(t, i) ==
    \/ /\ t[i] = NL
       /\ \E j \in (i + 1)..LineEnd(t, i + 1) :
              t[j] = "(" /\ YearAt(t, j + 1) /\ j + 5 <= Len(t) /\ t[j + 5] = ")"
    \/ YearAt(t, i) /\ i + 4 <= Len(t) /\ t[i + 4] = "."

\* the empty matches of a lookahead, from left to right
RECURSIVE FindLookahead(_, _, _)
FindLookahead(pat, t, i) ==
    IF i > Len(t) THEN <<>>
    ELSE LET here == IF pat = "doi" THEN DoiLookahead(t, i) ELSE YearLookahead(t, i)
         IN  IF here THEN << <<i, i>> >> \o FindLookahead(pat, t, i + 1)
                     ELSE FindLookahead(pat, t, i + 1)

\* re.split / str.split: the pieces of t between the matches
RECURSIVE Pieces(_, _, _)
Pieces(t, matches, from) ==
    IF matches = <<>>
    THEN << SubSeq(t, from, Len(t)) >>
    ELSE << SubSeq(t, from, matches[1][1] - 1) >> \o Pieces(t, Tail(matches), matches[1][2])

\* [p.strip() for p in parts if p.strip() and len(p.strip()) > min_len]
RECURSIVE KeepBlocks(_, _)
KeepBlocks(parts, min_len) ==
    IF parts = <<>> THEN <<>>
    ELSE LET p == Strip(Head(parts))
         IN  IF p # <<>> /\ Len(p) > min_len
             THEN <<p>> \o KeepBlocks(Tail(parts), min_len)
             ELSE KeepBlocks(Tail(parts), min_len)

----------------------------------------------------------------------------
(* src/extractor/pdf_extractor.py and web_extractor.py: _split_references *)

MinBlockLen == 10          \* pdf_extractor.py:235, 245, 274
MinLongBlockLen == 20      \* pdf_extractor.py:255, 266
MinMarkers == 2            \* pdf_extractor.py:233, 243, 253, 256
MinYearMarkers == 5        \* pdf_extractor.py:264, 267

\* a cascade whose blank-line fallback returns its blocks even when there are none
PdfSplitReferences_NoWholeText(text) ==
    LET bracket == FindAll("bracket", text, 1)
        numbered == FindAll("numbered", text, 1)
        doi_refs == KeepBlocks(Pieces(text, FindLookahead("doi", text, 1), 1), MinLongBlockLen)
        year_refs == KeepBlocks(Pieces(text, FindLookahead("year", text, 1), 1), MinLongBlockLen)
        blank_refs == KeepBlocks(Pieces(text, FindAll("blank", text, 1), 1), MinBlockLen)
    IN  IF Len(bracket) >= MinMarkers
        THEN [method |-> "bracket",
              references |-> KeepBlocks(Pieces(text, bracket, 1), MinBlockLen)]
        ELSE IF Len(numbered) >= MinMarkers
        THEN [method |-> "numbered",
              references |-> KeepBlocks(Pieces(text, numbered, 1), MinBlockLen)]
        ELSE IF Len(FindAll("doi", text, 1)) >= MinMarkers /\ Len(doi_refs) >= MinMarkers
        THEN [method |-> "doi", references |-> doi_refs]
        ELSE IF Len(FindAll("year", text, 1)) >= MinYearMarkers
                /\ Len(year_refs) >= MinYearMarkers
        THEN [method |-> "year", references |-> year_refs]
        ELSE [method |-> "blank", references |-> blank_refs]

\* pdf_extractor.py:221-278
PdfSplitReferences(text) ==
    LET bracket == FindAll("bracket", text, 1)
        numbered == FindAll("numbered", text, 1)
        doi_refs == KeepBlocks(Pieces(text, FindLookahead("doi", text, 1), 1), MinLongBlockLen)
        year_refs == KeepBlocks(Pieces(text, FindLookahead("year", text, 1), 1), MinLongBlockLen)
        blank_refs == KeepBlocks(Pieces(text, FindAll("blank", text, 1), 1), MinBlockLen)
    IN  IF Len(bracket) >= MinMarkers
        THEN [method |-> "bracket",
              references |-> KeepBlocks(Pieces(text, bracket, 1), MinBlockLen)]
        ELSE IF Len(numbered) >= MinMarkers
        THEN [method |-> "numbered",
              references |-> KeepBlocks(Pieces(text, numbered, 1), MinBlockLen)]
        ELSE IF Len(FindAll("doi", text, 1)) >= MinMarkers /\ Len(doi_refs) >= MinMarkers
        THEN [method |-> "doi", references |-> doi_refs]
        ELSE IF Len(FindAll("year", text, 1)) >= MinYearMarkers
                /\ Len(year_refs) >= MinYearMarkers
        THEN [method |-> "year", references |-> year_refs]
        ELSE [method |-> "blank",
              references |-> IF blank_refs # <<>> THEN blank_refs ELSE <<text>>]

\* web_extractor.py:98-129
WebSplitReferences(text) ==
    LET bracket == FindAll("bracket", text, 1)
        numbered == FindAll("web_numbered", text, 1)
        bullet == FindAll("bullet", text, 1)
        blank_refs == KeepBlocks(Pieces(text, FindAll("blank", text, 1), 1), MinBlockLen)
    IN  IF bracket # <<>>
        THEN [method |-> "bracket",
              references |-> KeepBlocks(Pieces(text, bracket, 1), MinBlockLen)]
        ELSE IF numbered # <<>>
        THEN [method |-> "numbered",
              references |-> KeepBlocks(Pieces(text, numbered, 1), MinBlockLen)]
        ELSE IF bullet # <<>>
        THEN [method |-> "bullet",
              references |-> KeepBlocks(Pieces(text, bullet, 1), MinBlockLen)]
        ELSE [method |-> "blank",
              references |-> IF blank_refs # <<>> THEN blank_refs ELSE <<text>>]

----------------------------------------------------------------------------
(* Reference-section texts handed to the segmenters *)

MaxRun == 5      \* lines of the first kind in a text
MaxTail == 1     \* lines of the second kind after them

DigitChars == <<"1", "2", "3", "4", "5", "6", "7", "8", "9">>

LineKinds ==
    {"bracket", "bracket_short", "numbered", "doi", "doi_short",
     "year", "year_short", "bullet", "plain"}

\* the k-th line of a text, of the given kind
Line(kind, k) ==
    CASE kind = "bracket" -> <<"[", DigitChars[k], "]", SP>> \o Rep("a", 11)
      [] kind = "bracket_short" -> <<"[", DigitChars[k], "]", SP, "a", "b">>
      [] kind = "numbered" -> <<DigitChars[k], ".", SP>> \o Rep("a", 11)
      [] kind = "doi" -> Rep("a", 21) \o <<SP, "d", "o", "i">>
      [] kind = "doi_short" -> <<"D", "O", "I">>
      [] kind = "year" -> Rep("a", 21) \o <<SP, "(", "2", "0", "2", "0", ")">>
      [] kind = "year_short" -> <<"1", "9", "9", "9", ".">>
      [] kind = "bullet" -> <<"-", SP>> \o Rep("a", 11)
      [] kind = "plain" -> Rep("a", 11)

RECURSIVE JoinLines(_, _)
JoinLines(lines, sep) ==
    IF Len(lines) = 1 THEN lines[1]
    ELSE lines[1] \o sep \o JoinLines(Tail(lines), sep)

\* a lines of kind ka, then b lines of kind kb, separated by sep
TextOf(lead, sep, ka, a, kb, b) ==
    lead \o JoinLines([k \in 1..(a + b) |-> IF k <= a THEN Line(ka, k) ELSE Line(kb, k)], sep)

\* "[1] Smith, J. (2023). Paper. J. of X, 10(2), 1-10. doi:10.1/a"
ScenarioRef1 ==
    <<"[", "1", "]", SP, "S", "m", "i", "t", "h", ",", SP, "J", ".", SP,
      "(", "2", "0", "2", "3", ")", ".", SP, "P", "a", "p", "e", "r", ".", SP,
      "J", ".", SP, "o", "f", SP, "X", ",", SP, "1", "0", "(", "2", ")", ",", SP,
      "1", "-", "1", "0", ".", SP, "d", "o", "i", ":", "1", "0", ".", "1", "/", "a">>

\* "[2] Doe, A. (2022). Other."
ScenarioRef2 ==
    <<"[", "2", "]", SP, "D", "o", "e", ",", SP, "A", ".", SP,
      "(", "2", "0", "2", "2", ")", ".", SP, "O", "t", "h", "e", "r", ".">>

ScenarioText == ScenarioRef1 \o <<NL>> \o ScenarioRef2

Texts ==
    {ScenarioText} \cup
    {TextOf(lead, sep, ka, a, kb, b) :
        lead \in {<<>>, <<NL>>}, sep \in {<<NL>>, <<NL, NL>>},
        ka \in LineKinds, a \in 1..MaxRun, kb \in LineKinds, b \in 0..MaxTail}

\* apply_fallbacks is not running
IdleFallbacks ==
    /\ pc = "idle"
    /\ references = <<>>
    /\ total_references = 0
    /\ extraction_errors = <<>>
    /\ entry = [references |-> <<>>, total_references |-> 0, extraction_errors |-> <<>>]
    /\ cfg = DefaultConfig
    /\ source_type = "pdf"
    /\ pdf_object = FALSE
    /\ html_content = FALSE
    /\ fallback_results = <<>>
    /\ existing_refs_set = {}
    /\ invoked = {}
    /\ raised = {}
    /\ added = {}
    /\ dropped = {}
    /\ doc = UnknownDoc
    /\ faults = FALSE
    /\ run = 1
    /\ first_run = <<>>

InitSplit ==
    /\ IdleFallbacks
    /\ IdleParser
    /\ IdleLayout
    /\ IdleBibtex
    /\ IdleTables
    /\ IdleExtractors
    /\ IdleHttp
    /\ IdleCoordinator
    /\ IdleFingerprints
    /\ IdleCandidates
    /\ IdlePage
    /\ IdleBlocks
    /\ seg_text \in Texts
    /\ seg_who = "none"
    /\ seg_method = "none"
    /\ seg_refs = <<>>

\* PDFExtractor._split_references(text)
PdfSplit ==
    /\ seg_who = "none"
    /\ LET r == PdfSplitReferences(seg_text)
       IN  /\ seg_who' = "pdf"
           /\ seg_method' = r.method
           /\ seg_refs' = r.references
    /\ UNCHANGED seg_text
    /\ UNCHANGED nonsegvars

\* WebExtractor._split_references(text)
WebSplit ==
    /\ seg_who = "none"
    /\ LET r == WebSplitReferences(seg_text)
       IN  /\ seg_who' = "web"
           /\ seg_method' = r.method
           /\ seg_refs' = r.references
    /\ UNCHANGED seg_text
    /\ UNCHANGED nonsegvars

NextSplit == PdfSplit \/ WebSplit

SpecSplit == InitSplit /\ [][NextSplit]_vars

----------------------------------------------------------------------------
(* src/utils.py: extract_doi, extract_year *)

Letters ==
    {"a", "b", "c", "d", "e", "f", "g", "h", "i", "j", "k", "l", "m",
     "n", "o", "p", "q", "r", "s", "t", "u", "v", "w", "x", "y", "z",
     "A", "B", "C", "D", "E", "F", "G", "H", "I", "J", "K", "L", "M",
     "N", "O", "P", "Q", "R", "S", "T", "U", "V", "W", "X", "Y", "Z"}

\* \w
WordChars == Letters \cup Digits \cup {"_"}

\* \b between t[i - 1] and t[i]
WordBoundary(t, i) ==
    (i - 1 >= 1 /\ t[i - 1] \in WordChars) # (i <= Len(t) /\ t[i] \in WordChars)

DecimalDigits == <<"0", "1", "2", "3", "4", "5", "6", "7", "8", "9">>

DigitValue(c) == CHOOSE v \in 0..9 : DecimalDigits[v + 1] = c

\* int() of a string of digits
RECURSIVE IntOf(_)
IntOf(s) ==
    IF s = <<>> THEN 0
    ELSE 10 * IntOf(SubSeq(s, 1, Len(s) - 1)) + DigitValue(s[Len(s)])

\* the least element of a non-empty set of positions: re.search is leftmost
First(S) == CHOOSE i \in S : \A j \in S : i <= j

\* utils.py:62-71, year_pattern r'\b(19|20)\d{2}\b'
extract_year(text) ==
    LET hits == {i \in 1..Len(text) :
                    WordBoundary(text, i) /\ YearAt(text, i) /\ WordBoundary(text, i + 4)}
    IN  IF hits = {} THEN NoneYear
        ELSE IntOf(SubSeq(text, First(hits), First(hits) + 3))

MinRegistrantDigits == 4      \* utils.py:44, \d{4,}

\* the index just after the match of 10\.\d{min_digits,}/\S+ that starts at
\* index i, or 0
DoiMatchEnd(t, i, min_digits) ==
    IF LitAt(t, i, <<"1", "0", ".">>)
    THEN LET k == SkipSet(t, i + 3, Digits)
             e == SkipSet(t, k + 1, {c \in {t[n] : n \in 1..Len(t)} : c \notin Whitespace})
         IN  IF /\ k - (i + 3) >= min_digits
                /\ k <= Len(t) /\ t[k] = "/"
                /\ e > k + 1
             THEN e
             ELSE 0
    ELSE 0

\* str.rstrip(chars)
RECURSIVE RStripChars(_, _)
RStripChars(s, chars) ==
    IF s # <<>> /\ s[Len(s)] \in chars
    THEN RStripChars(SubSeq(s, 1, Len(s) - 1), chars)
    ELSE s

DoiSearch(text, min_digits) ==
    LET hits == {i \in 1..Len(text) : DoiMatchEnd(text, i, min_digits) > 0}
    IN  IF hits = {} THEN None
        ELSE RStripChars(SubSeq(text, First(hits),
                                DoiMatchEnd(text, First(hits), min_digits) - 1),
                         {".", ",", ";", ":", ")"})

\* the pattern with \d+ for the registrant code
extract_doi_ShortRegistrant(text) == DoiSearch(text, 1)

\* utils.py:41-49, doi_pattern r'10\.\d{4,}/\S+'
extract_doi(text) == DoiSearch(text, MinRegistrantDigits)

----------------------------------------------------------------------------
(* src/extractor/parser.py: ReferenceParser.parse_reference *)

MinReferenceLen == 10       \* parser.py:29

NoReference == [raw_text |-> None, doi |-> None, year |-> NoneYear]

\* parser.py:19-63 (the fields raw_text, doi and year)
parse_reference(text) ==
    IF text = <<>> \/ Len(Strip(text)) < MinReferenceLen
    THEN [returned |-> FALSE, ref |-> NoReference]
    ELSE LET stripped == Strip(text)
         IN  [returned |-> TRUE,
              ref |-> [raw_text |-> stripped,
                       doi |-> extract_doi(stripped),
                       year |-> extract_year(stripped)]]

(* Reference texts handed to the parser, made of five parts *)

\* how a reference text begins: the characters, and the 19xx/20xx tokens among them
Heads ==
    {
        [chars |-> <<>>, years |-> <<>>],
        [chars |-> <<"D", "o", "e", ",", SP, "A", ".", SP>>, years |-> <<>>],
        [chars |-> <<"[", "1", "]", SP, "S", "m", "i", "t", "h", ",", SP, "J", ".", SP>>, years |-> <<>>],
        [chars |-> <<"a", "1", "9", "9", "9", "b", SP>>, years |-> <<>>] }

\* the publication year as written
YearParts ==
    {
        [chars |-> <<>>, years |-> <<>>],
        [chars |-> <<"(", "2", "0", "2", "3", ")", ".", SP>>, years |-> <<2023>>],
        [chars |-> <<"(", "2", "0", "2", "2", ")", ".", SP>>, years |-> <<2022>>],
        [chars |-> <<"2", "0", "2", "1", SP>>, years |-> <<2021>>],
        [chars |-> <<"1", "9", "9", "9", ".", SP>>, years |-> <<1999>>],
        [chars |-> <<"2", "0", "2", "3", "4", SP>>, years |-> <<>>],
        [chars |-> <<"1", "8", "9", "9", SP>>, years |-> <<>>] }

\* title and venue
MiddleParts ==
    {
        [chars |-> <<>>, years |-> <<>>],
        [chars |-> <<"P", "a", "p", "e", "r", ".", SP, "J", ".", SP, "o", "f", SP, "X", ",", SP, "1", "0", "(", "2", ")", ",", SP, "1", "-", "1", "0", ".", SP>>, years |-> <<>>],
        [chars |-> <<"T", "i", "t", "l", "e", SP, "(", "2", "0", "0", "1", ")", ".", SP>>, years |-> <<2001>>],
        [chars |-> <<"O", "t", "h", "e", "r", ".">>, years |-> <<>>] }

\* the DOI as written: token is what is written after the label, doi the
\* token when it has a registrant code of four digits or more
DoiParts ==
    {
        [chars |-> <<>>, years |-> <<>>, token |-> None, doi |-> None],
        [chars |-> <<"d", "o", "i", ":", "1", "0", ".", "1", "/", "a">>, years |-> <<>>, token |-> <<"1", "0", ".", "1", "/", "a">>, doi |-> None],
        [chars |-> <<"d", "o", "i", ":", "1", "0", ".", "1", "2", "3", "4", "/", "a">>, years |-> <<>>, token |-> <<"1", "0", ".", "1", "2", "3", "4", "/", "a">>, doi |-> <<"1", "0", ".", "1", "2", "3", "4", "/", "a">>],
        [chars |-> <<"h", "t", "t", "p", "s", ":", "/", "/", "d", "o", "i", ".", "o", "r", "g", "/", "1", "0", ".", "1", "2", "3", "4", "5", "/", "b", ".", "c">>, years |-> <<>>, token |-> <<"1", "0", ".", "1", "2", "3", "4", "5", "/", "b", ".", "c">>, doi |-> <<"1", "0", ".", "1", "2", "3", "4", "5", "/", "b", ".", "c">>],
        [chars |-> <<"1", "0", ".", "2", "0", "2", "0", "/", "x">>, years |-> <<2020>>, token |-> <<"1", "0", ".", "2", "0", "2", "0", "/", "x">>, doi |-> <<"1", "0", ".", "2", "0", "2", "0", "/", "x">>] }

\* what follows the DOI
TailParts ==
    {<<>>,
     <<".">>,
     <<")", ".">>,
     <<";">>,
     <<SP, "e", "n", "d">>}

ParserInputs ==
    [head : Heads, year : YearParts, middle : MiddleParts, doi : DoiParts,
     tail : TailParts]

TextOfParts(in) ==
    in.head.chars \o in.year.chars \o in.middle.chars \o in.doi.chars \o in.tail

InitParse ==
    /\ IdleFallbacks
    /\ IdleSegmenter
    /\ IdleLayout
    /\ IdleBibtex
    /\ IdleTables
    /\ IdleExtractors
    /\ IdleHttp
    /\ IdleCoordinator
    /\ IdleFingerprints
    /\ IdleCandidates
    /\ IdlePage
    /\ IdleBlocks
    /\ par_input \in ParserInputs
    /\ par_state = "none"
    /\ par_ref = NoReference

\* ReferenceParser.parse_reference(text)
ParseReference ==
    /\ par_state = "none"
    /\ LET r == parse_reference(TextOfParts(par_input))
       IN  /\ par_state' = IF r.returned THEN "parsed" ELSE "rejected"
           /\ par_ref' = r.ref
    /\ UNCHANGED par_input
    /\ UNCHANGED nonparvars

NextParse == ParseReference

SpecParse == InitParse /\ [][NextParse]_vars

----------------------------------------------------------------------------
(* src/extractor/pdf/layout.py: reading order of the words of a page *)

LineTolerance == 3          \* layout.py:158
GapDivisor == 10            \* layout.py:285, page_width * 0.1
MaxBoundaries == 2          \* layout.py:294-296

Abs(n) == IF n < 0 THEN 0 - n ELSE n

\* the key (top, x0) of a is not after that of b
WordKeyLeq(a, b) == a.top < b.top \/ (a.top = b.top /\ a.x0 <= b.x0)

\* sorted(words, key=lambda w: (w['top'], w['x0'])), a stable sort
RECURSIVE SortWords(_)
SortWords(words) ==
    IF words = <<>> THEN <<>>
    ELSE LET rest == SortWords(SubSeq(words, 1, Len(words) - 1))
             w == words[Len(words)]
             n == Cardinality({i \in 1..Len(rest) : WordKeyLeq(rest[i], w)})
         IN  SubSeq(rest, 1, n) \o <<w>> \o SubSeq(rest, n + 1, Len(rest))

\* a loop that compares each word with the first word of the current line
RECURSIVE GroupLines_FromLineStart(_, _, _)
GroupLines_FromLineStart(ws, lines, current_line) ==
    IF ws = <<>> THEN Append(lines, current_line)
    ELSE IF Abs(Head(ws).top - current_line[1].top) < LineTolerance
    THEN GroupLines_FromLineStart(Tail(ws), lines, Append(current_line, Head(ws)))
    ELSE GroupLines_FromLineStart(Tail(ws), Append(lines, current_line), <<Head(ws)>>)

\* the loop of _group_words_into_lines (layout.py:156-165)
RECURSIVE GroupLines(_, _, _)
GroupLines(ws, lines, current_line) ==
    IF ws = <<>> THEN Append(lines, current_line)
    ELSE IF Abs(Head(ws).top - current_line[Len(current_line)].top) < LineTolerance
    THEN GroupLines(Tail(ws), lines, Append(current_line, Head(ws)))
    ELSE GroupLines(Tail(ws), Append(lines, current_line), <<Head(ws)>>)

\* layout.py:137-167
_group_words_into_lines(words) ==
    IF words = <<>> THEN <<>>
    ELSE LET sorted_words == SortWords(words)
         IN  GroupLines(Tail(sorted_words), <<>>, <<sorted_words[1]>>)

\* twice the center (w['x0'] + w['x1']) / 2, to stay in the integers
Center2(w) == w.x0 + w.x1

\* sorted(S) for a set of integers
RECURSIVE SortedSeq(_)
SortedSeq(S) ==
    IF S = {} THEN <<>>
    ELSE LET m == CHOOSE x \in S : \A y \in S : x <= y
         IN  <<m>> \o SortedSeq(S \ {m})

\* twice the boundaries (x_sorted[i] + x_sorted[i + 1]) / 2 of the gaps wider
\* than page_width * 0.1, from left to right (layout.py:281-291)
RECURSIVE Boundaries2(_, _)
Boundaries2(x_sorted, page_width) ==
    IF Len(x_sorted) < 2 THEN <<>>
    ELSE (IF GapDivisor * (x_sorted[2] - x_sorted[1]) > page_width
          THEN <<x_sorted[1] + x_sorted[2]>>
          ELSE <<>>) \o Boundaries2(Tail(x_sorted), page_width)

\* the loop that finds a word's column (layout.py:310-314)
RECURSIVE ColumnIndex(_, _)
ColumnIndex(w, boundaries2) ==
    IF boundaries2 = <<>> \/ Center2(w) < Head(boundaries2) THEN 0
    ELSE 1 + ColumnIndex(w, Tail(boundaries2))

\* [col for col in columns if col]
RECURSIVE NonEmpty(_)
NonEmpty(columns) ==
    IF columns = <<>> THEN <<>>
    ELSE IF Head(columns) = <<>> THEN NonEmpty(Tail(columns))
    ELSE <<Head(columns)>> \o NonEmpty(Tail(columns))

\* a column detection that keeps every boundary it finds
_detect_columns_AllBoundaries(words, page_width) ==
    IF words = <<>> THEN <<>>
    ELSE LET x_sorted == SortedSeq({Center2(words[i]) \div 2 : i \in 1..Len(words)})
             column_boundaries == Boundaries2(x_sorted, page_width)
             InColumn(c) == LET Test(w) == ColumnIndex(w, column_boundaries) = c
                            IN  SelectSeq(words, Test)
         IN  IF column_boundaries = <<>> THEN <<words>>
             ELSE NonEmpty([c \in 1..(Len(column_boundaries) + 1) |-> InColumn(c - 1)])

\* layout.py:258-322
_detect_columns(words, page_width) ==
    IF words = <<>> THEN <<>>
    ELSE LET x_sorted == SortedSeq({Center2(words[i]) \div 2 : i \in 1..Len(words)})
             found == Boundaries2(x_sorted, page_width)
             column_boundaries ==
                 IF Len(found) > MaxBoundaries THEN SubSeq(found, 1, MaxBoundaries) ELSE found
             InColumn(c) == LET Test(w) == ColumnIndex(w, column_boundaries) = c
                            IN  SelectSeq(words, Test)
         IN  IF column_boundaries = <<>> THEN <<words>>
             ELSE NonEmpty([c \in 1..(Len(column_boundaries) + 1) |-> InColumn(c - 1)])

\* min(w['x0'] for w in col)
MinX0(col) == CHOOSE x \in {col[i].x0 : i \in 1..Len(col)} :
                  \A i \in 1..Len(col) : x <= col[i].x0

\* sorted(columns, key=lambda col: min(w['x0'] for w in col)), a stable sort
RECURSIVE SortColumns(_)
SortColumns(columns) ==
    IF columns = <<>> THEN <<>>
    ELSE LET rest == SortColumns(SubSeq(columns, 1, Len(columns) - 1))
             col == columns[Len(columns)]
             n == Cardinality({i \in 1..Len(rest) : MinX0(rest[i]) <= MinX0(col)})
         IN  SubSeq(rest, 1, n) \o <<col>> \o SubSeq(rest, n + 1, Len(rest))

\* layout.py:219-256: the lines of each column, and the text returned
_order_text_by_columns(words, page_width) ==
    IF words = <<>> THEN [columns |-> <<>>, text |-> <<>>]
    ELSE LET columns == SortColumns(_detect_columns(words, page_width))
             lines == [c \in 1..Len(columns) |->
                          _group_words_into_lines(SortWords(columns[c]))]
             LineText(line) == JoinLines([i \in 1..Len(line) |-> line[i].text], <<SP>>)
             ColumnText(ls) == JoinLines([l \in 1..Len(ls) |-> LineText(ls[l])], <<NL>>)
         IN  [columns |-> lines,
              text |-> JoinLines([c \in 1..Len(lines) |-> ColumnText(lines[c])], <<NL, NL>>)]

(* Pages: words on a grid of positions *)

MaxWords == 4               \* words on a page

WordWidth == 2              \* x1 - x0 of every word
XPositions == <<0, 4, 20, 40, 44, 80>>
TopPositions == <<100, 101, 110>>
PageWidths == {100, 400}

WordLabels ==
    <<"a", "b", "c", "d", "e", "f", "g", "h", "i",
      "j", "k", "l", "m", "n", "o", "p", "q", "r">>

\* the word at the i-th x position and the j-th top
WordAt(i, j) ==
    [text |-> <<WordLabels[(i - 1) * Len(TopPositions) + j]>>,
     x0 |-> XPositions[i], x1 |-> XPositions[i] + WordWidth, top |-> TopPositions[j]]

GridPositions == (1..Len(XPositions)) \X (1..Len(TopPositions))

\* the words at a set of grid positions as a list, left to right and top to
\* bottom, or the other way round
RECURSIVE WordList(_, _)
WordList(S, reversed) ==
    IF S = {} THEN <<>>
    ELSE LET p == CHOOSE q \in S :
                      \A r \in S : q[1] < r[1] \/ (q[1] = r[1] /\ q[2] <= r[2])
         IN  IF reversed THEN WordList(S \ {p}, reversed) \o <<WordAt(p[1], p[2])>>
             ELSE <<WordAt(p[1], p[2])>> \o WordList(S \ {p}, reversed)

Pages ==
    {WordList(S, reversed) :
        S \in {T \in SUBSET GridPositions : Cardinality(T) \in 1..MaxWords},
        reversed \in BOOLEAN}

InitLayout ==
    /\ IdleFallbacks
    /\ IdleSegmenter
    /\ IdleParser
    /\ IdleBibtex
    /\ IdleTables
    /\ IdleExtractors
    /\ IdleHttp
    /\ IdleCoordinator
    /\ IdleFingerprints
    /\ IdleCandidates
    /\ IdlePage
    /\ IdleBlocks
    /\ lay_words \in Pages
    /\ lay_page_width \in PageWidths
    /\ lay_state = "none"
    /\ lay_columns = <<>>
    /\ lay_text = <<>>

\* LayoutAwareExtractor._order_text_by_columns(words, page)
OrderTextByColumns ==
    /\ lay_state = "none"
    /\ LET r == _order_text_by_columns(lay_words, lay_page_width)
       IN  /\ lay_state' = "ordered"
           /\ lay_columns' = r.columns
           /\ lay_text' = r.text
    /\ UNCHANGED <<lay_words, lay_page_width>>
    /\ UNCHANGED nonlayvars

NextLayout == OrderTextByColumns

SpecLayout == InitLayout /\ [][NextLayout]_vars

----------------------------------------------------------------------------
(* BibTeX entries: fallbacks.py _parse_bibtex_entry and
   fallbacks/bibtex_parser.py BibTeXParser.parse_bibtex_entry *)

UpperLetters ==
    <<"A", "B", "C", "D", "E", "F", "G", "H", "I", "J", "K", "L", "M",
      "N", "O", "P", "Q", "R", "S", "T", "U", "V", "W", "X", "Y", "Z">>

LowerLetters ==
    <<"a", "b", "c", "d", "e", "f", "g", "h", "i", "j", "k", "l", "m",
      "n", "o", "p", "q", "r", "s", "t", "u", "v", "w", "x", "y", "z">>

\* str.lower()
LowerStr(s) ==
    [i \in 1..Len(s) |->
        IF \E n \in 1..Len(UpperLetters) : UpperLetters[n] = s[i]
        THEN LowerLetters[CHOOSE n \in 1..Len(UpperLetters) : UpperLetters[n] = s[i]]
        ELSE s[i]]

\* the characters of t other than ch
AllBut(t, ch) == {c \in {t[n] : n \in 1..Len(t)} : c # ch}

\* the match of (\w+)\s*=\s*\{([^}]*)\} that starts at index i, or, when quoted
\* values are read too, of (\w+)\s*=\s*(?:\{([^}]*)\}|"([^"]*)").  The longer
\* pattern of fallbacks.py:317 matches the same text: its [^}]* stops at the
\* first closing brace, where the pattern ends.
FieldAt(t, i, quoted) ==
    LET j == SkipSet(t, i, WordChars)
        a == SkipSet(t, j, Whitespace)
        b == SkipSet(t, a + 1, Whitespace)
        close == IF b <= Len(t) /\ t[b] = "{" THEN "}" ELSE "\""
        c == SkipSet(t, b + 1, AllBut(t, close))
    IN  IF /\ j > i
           /\ a <= Len(t) /\ t[a] = "="
           /\ b <= Len(t) /\ (t[b] = "{" \/ (quoted /\ t[b] = "\""))
           /\ c <= Len(t)
        THEN [ok |-> TRUE, key |-> SubSeq(t, i, j - 1),
              value |-> SubSeq(t, b + 1, c - 1), end |-> c + 1]
        ELSE [ok |-> FALSE, key |-> <<>>, value |-> <<>>, end |-> 0]

\* re.findall / finditer of the field pattern: the fields from left to right
RECURSIVE FieldMatches(_, _, _)
FieldMatches(t, i, quoted) ==
    IF i > Len(t) THEN <<>>
    ELSE LET f == FieldAt(t, i, quoted)
         IN  IF f.ok THEN <<f>> \o FieldMatches(t, f.end, quoted)
                     ELSE FieldMatches(t, i + 1, quoted)

\* fields[key.lower()] = value.strip(), a later field replacing an earlier one;
\* with skip_empty the assignment is under `if field_value:` (bibtex_parser.py:175)
RECURSIVE FieldsDict(_, _)
FieldsDict(matches, skip_empty) ==
    IF matches = <<>> THEN <<>>
    ELSE LET f == matches[Len(matches)]
             rest == FieldsDict(SubSeq(matches, 1, Len(matches) - 1), skip_empty)
             others == LET Keep(e) == e.key # LowerStr(f.key) IN SelectSeq(rest, Keep)
         IN  IF skip_empty /\ f.value = <<>> THEN rest
             ELSE Append(others, [key |-> LowerStr(f.key), value |-> Strip(f.value)])

HasField(fields, key) == \E n \in 1..Len(fields) : fields[n].key = key

\* fields[key]
FieldValue(fields, key) ==
    fields[CHOOSE n \in 1..Len(fields) : fields[n].key = key].value

\* fields.get(key, '')
FieldOrEmpty(fields, key) ==
    IF HasField(fields, key) THEN FieldValue(fields, key) ELSE <<>>

\* the occurrences of a literal, from left to right and not overlapping
RECURSIVE FindLit(_, _, _)
FindLit(t, lit, i) ==
    IF i > Len(t) THEN <<>>
    ELSE IF LitAt(t, i, lit) THEN << <<i, i + Len(lit)>> >> \o FindLit(t, lit, i + Len(lit))
    ELSE FindLit(t, lit, i + 1)

\* re.search(r'\d{4}', s) and int() of the match (fallbacks.py:343-345)
FourDigits(s) ==
    LET hits == {i \in 1..(Len(s) - 3) : \A n \in 0..3 : s[i + n] \in Digits}
    IN  IF hits = {} THEN NoneYear
        ELSE IntOf(SubSeq(s, First(hits), First(hits) + 3))

\* type_mapping (fallbacks.py:368-376)
type_mapping ==
    {<<<<"a", "r", "t", "i", "c", "l", "e">>,
       <<"j", "o", "u", "r", "n", "a", "l">>>>,
     <<<<"i", "n", "p", "r", "o", "c", "e", "e", "d", "i", "n", "g", "s">>,
       <<"c", "o", "n", "f", "e", "r", "e", "n", "c", "e">>>>,
     <<<<"i", "n", "c", "o", "l", "l", "e", "c", "t", "i", "o", "n">>,
       <<"b", "o", "o", "k">>>>,
     <<<<"b", "o", "o", "k">>,
       <<"b", "o", "o", "k">>>>,
     <<<<"p", "h", "d", "t", "h", "e", "s", "i", "s">>,
       <<"t", "h", "e", "s", "i", "s">>>>,
     <<<<"m", "a", "s", "t", "e", "r", "s", "t", "h", "e", "s", "i", "s">>,
       <<"t", "h", "e", "s", "i", "s">>>>,
     <<<<"m", "i", "s", "c">>,
       <<"o", "t", "h", "e", "r">>>>}

OtherType == <<"o", "t", "h", "e", "r">>

\* entry types as written after the @
EntryTypes ==
    {<<"a", "r", "t", "i", "c", "l", "e">>,
     <<"i", "n", "p", "r", "o", "c", "e", "e", "d", "i", "n", "g", "s">>,
     <<"i", "n", "c", "o", "l", "l", "e", "c", "t", "i", "o", "n">>,
     <<"b", "o", "o", "k">>,
     <<"p", "h", "d", "t", "h", "e", "s", "i", "s">>,
     <<"m", "a", "s", "t", "e", "r", "s", "t", "h", "e", "s", "i", "s">>,
     <<"m", "i", "s", "c">>,
     <<"t", "e", "c", "h", "r", "e", "p", "o", "r", "t">>,
     <<"A", "r", "t", "i", "c", "l", "e">>}

\* the author field as written (None: no author field) and the names in it
AuthorFields ==
    {[chars |-> None,
      names |-> <<>>],
     [chars |-> <<"A", ",", SP, "B">>,
      names |-> <<<<"A", ",", SP, "B">>>>],
     [chars |-> <<"A", SP, "a", "n", "d", SP, "B">>,
      names |-> <<<<"A">>, <<"B">>>>],
     [chars |-> <<"S", "m", "i", "t", "h", ",", SP, "J", ".", SP, "a", "n", "d", SP, "D", "o", "e", ",", SP, "A", ".">>,
      names |-> <<<<"S", "m", "i", "t", "h", ",", SP, "J", ".">>, <<"D", "o", "e", ",", SP, "A", ".">>>>]}

\* the year field as written (None: no year field) and its 19xx/20xx value
YearFields ==
    {[chars |-> None, value |-> NoneYear],
     [chars |-> <<"2", "0", "2", "3">>, value |-> 2023],
     [chars |-> <<"1", "9", "9", "9">>, value |-> 1999],
     [chars |-> <<"1", "8", "5", "0">>, value |-> NoneYear],
     [chars |-> <<"c", ".", SP, "2", "0", "0", "1">>, value |-> 2001]}

EntryOpen == <<"{", "k">>
AuthorOpen == <<",", SP, "a", "u", "t", "h", "o", "r", "=", "{">>
YearOpen == <<",", SP, "y", "e", "a", "r", "=", "{">>
AndSeparator == <<SP, "a", "n", "d", SP>>

\* '@article{k, author={A, B}, year={2023}}'
ScenarioEntry ==
    <<"@", "a", "r", "t", "i", "c", "l", "e", "{", "k", ",", SP, "a", "u", "t", "h", "o", "r", "=", "{", "A", ",", SP, "B", "}", ",", SP, "y", "e", "a", "r", "=", "{", "2", "0", "2", "3", "}", "}">>

NoBibtexReference ==
    [returned |-> FALSE, publication_type |-> None, year |-> NoneYear, authors |-> <<>>]

\* type_mapping.get(entry_type, 'other')
PublicationType(entry_type) ==
    IF \E m \in type_mapping : m[1] = entry_type
    THEN (CHOOSE m \in type_mapping : m[1] = entry_type)[2]
    ELSE OtherType

\* fallbacks.py:302-383 (publication_type, year and authors of the Reference)
_parse_bibtex_entry(bibtex_text) ==
    LET t == Strip(bibtex_text)
        j == SkipSet(t, 2, Letters)
        k == SkipSet(t, j, Whitespace)
        type_match ==
            /\ t # <<>> /\ t[1] = "@"
            /\ j > 2
            /\ k <= Len(t) /\ t[k] = "{"
            /\ k + 1 <= Len(t) /\ t[k + 1] # ","
        entry_type == LowerStr(SubSeq(t, 2, j - 1))
        fields == FieldsDict(FieldMatches(bibtex_text, 1, FALSE), FALSE)
        authors_text == FieldValue(fields, <<"a", "u", "t", "h", "o", "r">>)
        parts == Pieces(authors_text, FindLit(authors_text, AndSeparator, 1), 1)
    IN  IF ~type_match THEN NoBibtexReference
        ELSE [returned |-> TRUE,
              publication_type |-> PublicationType(entry_type),
              year |-> IF HasField(fields, <<"y", "e", "a", "r">>)
                       THEN FourDigits(FieldValue(fields, <<"y", "e", "a", "r">>))
                       ELSE NoneYear,
              authors |-> IF HasField(fields, <<"a", "u", "t", "h", "o", "r">>)
                          THEN [n \in 1..Len(parts) |-> Strip(parts[n])]
                          ELSE <<>>]

MaxAuthors == 10            \* bibtex_parser.py:209

\* bibtex_parser.py:181-209
_parse_bibtex_authors(author_string) ==
    IF author_string = <<>> THEN <<>>
    ELSE LET parts == Pieces(author_string, FindLit(author_string, AndSeparator, 1), 1)
             stripped == [n \in 1..Len(parts) |-> Strip(parts[n])]
             NotEmpty(a) == a # <<>>
             kept == SelectSeq(stripped, NotEmpty)
         IN  Take([n \in 1..Len(kept) |-> CollapseWs(kept[n])], MaxAuthors)

\* the last index of ch in t, or 0: str.rfind
RFind(t, ch) ==
    IF \E n \in 1..Len(t) : t[n] = ch
    THEN CHOOSE n \in 1..Len(t) : t[n] = ch /\ \A m \in (n + 1)..Len(t) : t[m] # ch
    ELSE 0

\* bibtex_parser.py:89-152 (publication_type, year and authors of the
\* Reference); publication_type is assigned nowhere and keeps its default
parse_bibtex_entry(entry_text) ==
    LET j == SkipSet(entry_text, 2, WordChars)
        k == SkipSet(entry_text, j, Whitespace)
        type_match ==
            /\ entry_text # <<>> /\ entry_text[1] = "@"
            /\ j > 2
            /\ k <= Len(entry_text) /\ entry_text[k] = "{"
        \* key_match: @\w+\s*\{\s*([^,]+)\s*, from the start of the entry
        comma == SkipSet(entry_text, k + 1, AllBut(entry_text, ","))
        key_match == comma > k + 1 /\ comma <= Len(entry_text)
        fields_end == RFind(entry_text, "}")
        fields_text == SubSeq(entry_text, comma + 1, fields_end - 1)
        fields == FieldsDict(FieldMatches(fields_text, 1, TRUE), TRUE)
    IN  IF ~type_match \/ ~key_match \/ fields_end = 0 THEN NoBibtexReference
        ELSE [returned |-> TRUE,
              publication_type |-> None,
              year |-> extract_year(FieldOrEmpty(fields, <<"y", "e", "a", "r">>)),
              authors |-> _parse_bibtex_authors(
                              FieldOrEmpty(fields, <<"a", "u", "t", "h", "o", "r">>))]

BibtexInputs == [type : EntryTypes, author : AuthorFields, year : YearFields]

\* the entry '@type{k, author={...}, year={...}}' with the fields that are given
EntryText(in) ==
    <<"@">> \o in.type \o EntryOpen
        \o (IF in.author.chars = None THEN <<>> ELSE AuthorOpen \o in.author.chars \o <<"}">>)
        \o (IF in.year.chars = None THEN <<>> ELSE YearOpen \o in.year.chars \o <<"}">>)
        \o <<"}">>

InitBibtex ==
    /\ IdleFallbacks
    /\ IdleSegmenter
    /\ IdleParser
    /\ IdleLayout
    /\ IdleTables
    /\ IdleExtractors
    /\ IdleHttp
    /\ IdleCoordinator
    /\ IdleFingerprints
    /\ IdleCandidates
    /\ IdlePage
    /\ IdleBlocks
    /\ bib_input \in BibtexInputs
    /\ bib_who = "none"
    /\ bib_ref = NoBibtexReference

\* ExtractionFallbackManager._parse_bibtex_entry(bibtex_text)
ManagerParseBibtex ==
    /\ bib_who = "none"
    /\ bib_who' = "manager"
    /\ bib_ref' = _parse_bibtex_entry(EntryText(bib_input))
    /\ UNCHANGED bib_input
    /\ UNCHANGED nonbibvars

\* BibTeXParser.parse_bibtex_entry(entry)
ParserParseBibtex ==
    /\ bib_who = "none"
    /\ bib_who' = "parser"
    /\ bib_ref' = parse_bibtex_entry(EntryText(bib_input))
    /\ UNCHANGED bib_input
    /\ UNCHANGED nonbibvars

NextBibtex == ManagerParseBibtex \/ ParserParseBibtex

SpecBibtex == InitBibtex /\ [][NextBibtex]_vars

----------------------------------------------------------------------------
(* Reference tables: fallbacks/table_extractor.py _is_reference_table and
   pdf/table_extractor.py _looks_like_reference_table *)

\* rows of two cells: the text of each cell (None: an empty cell of the PDF
\* library) and whether it carries a reference marker (a 4-digit year, a DOI,
\* a volume, pages or a reference number)
TableRows ==
    {<<[text |-> <<"N", "a", "m", "e">>, marker |-> FALSE],
       [text |-> <<"A", "g", "e">>, marker |-> FALSE]>>,
     <<[text |-> <<"A", "l", "i", "c", "e">>, marker |-> FALSE],
       [text |-> <<"3", "0">>, marker |-> FALSE]>>,
     <<[text |-> <<"B", "o", "b">>, marker |-> FALSE],
       [text |-> <<"2", "0">>, marker |-> FALSE]>>,
     <<[text |-> <<"[", "1", "]">>, marker |-> TRUE],
       [text |-> <<"S", "m", "i", "t", "h", ",", SP, "J", ".", SP, "(", "2", "0", "2", "3", ")", ".", SP, "A", "r", "t", "i", "c", "l", "e", ".", SP, "J", "o", "u", "r", "n", "a", "l", ",", SP, "1", "0", "(", "2", ")", ",", SP, "1", "0", "0", "-", "1", "1", "0", ".", SP, "d", "o", "i", ":", SP, "1", "0", ".", "1", "2", "3", "4", "/", "r", "e", "f">>, marker |-> TRUE]>>,
     <<[text |-> <<"d", "o", "i", ":", SP, "1", "0", ".", "1", "2", "3", "4", "/", "r">>, marker |-> TRUE],
       [text |-> <<"a", "b", "c">>, marker |-> FALSE]>>,
     <<[text |-> <<"a", "b", "c">>, marker |-> FALSE],
       [text |-> <<"d", "e", "f">>, marker |-> FALSE]>>,
     <<[text |-> <<"2", "0", "2", "3">>, marker |-> TRUE],
       [text |-> None, marker |-> FALSE]>>,
     <<[text |-> <<"v", "o", "l", ".", SP, "3">>, marker |-> TRUE],
       [text |-> <<"p", "p", ".", SP, "1", "0">>, marker |-> TRUE]>>}

\* the indicators of _is_reference_table (table_extractor.py:82-85)
Indicators ==
    {<<"d", "o", "i">>,
     <<"h", "t", "t", "p">>,
     <<"a", "u", "t", "h", "o", "r">>,
     <<"j", "o", "u", "r", "n", "a", "l">>,
     <<"p", "u", "b", "l", "i", "s", "h", "e", "d">>,
     <<"1", "9">>,
     <<"2", "0">>}

LitDoiColon == <<"d", "o", "i", ":">>
LitTenDot == <<"1", "0", ".">>
LitVol == <<"v", "o", "l">>
LitVolume == <<"v", "o", "l", "u", "m", "e">>
LitPp == <<"p", "p">>
LitPage == <<"p", "a", "g", "e">>

\* the elements of the lists of a list, in order
RECURSIVE Flatten(_)
Flatten(ss) == IF ss = <<>> THEN <<>> ELSE Head(ss) \o Flatten(Tail(ss))

min_table_rows == 3         \* fallbacks/table_extractor.py:20
SampledRows == 10           \* fallbacks/table_extractor.py:74
MinTableTextLen == 50       \* pdf/table_extractor.py:75
MinPatternMatches == 2      \* pdf/table_extractor.py:91

\* lit in t
Contains(t, lit) == \E i \in 1..Len(t) : LitAt(t, i, lit)

\* `if cell and isinstance(cell, str)`
IsTextCell(cell) == cell # None /\ cell # <<>>

\* what one cell adds to reference_indicators (table_extractor.py:78-90)
CellIndicators(cell) ==
    (IF \E ind \in Indicators : Contains(LowerStr(cell), ind) THEN 1 ELSE 0)
        + (IF extract_year(cell) # NoneYear THEN 1 ELSE 0)

RECURSIVE SumIndicators(_)
SumIndicators(cells) ==
    IF cells = <<>> THEN 0
    ELSE CellIndicators(Head(cells)) + SumIndicators(Tail(cells))

\* fallbacks/table_extractor.py:58-96; the test ratio > 0.3 is done on integers
_is_reference_table(table) ==
    IF table = <<>> \/ Len(table) < min_table_rows THEN FALSE
    ELSE LET cells == SelectSeq(Flatten(Take(table, SampledRows)), IsTextCell)
             total_cells == Len(cells)
             reference_indicators == SumIndicators(cells)
         IN  total_cells > 0 /\ 10 * reference_indicators > 3 * total_cells

\* pdf/table_extractor.py:55-71
_normalize_table_cells(table) ==
    LET RowText(row) ==
            LET cells == SelectSeq(row, LAMBDA c : c # None /\ Strip(c) # <<>>)
            IN  IF cells = <<>> THEN None
                ELSE JoinLines([n \in 1..Len(cells) |-> Strip(cells[n])], <<SP>>)
        rows == SelectSeq([n \in 1..Len(table) |-> RowText(table[n])],
                          LAMBDA r : r # None)
    IN  IF rows = <<>> THEN <<>> ELSE JoinLines(rows, <<NL>>)

\* a literal, an optional ch, \s* and a digit stand in t from index i on
LabelledNumberAt(t, i, lit, ch) ==
    /\ LitAt(t, i, lit)
    /\ LET j == i + Len(lit)
           k == IF j <= Len(t) /\ t[j] = ch THEN j + 1 ELSE j
           d == SkipSet(t, k, Whitespace)
       IN  d <= Len(t) /\ t[d] \in Digits

\* which of the five patterns of pdf/table_extractor.py:80-86 are found in the
\* text, re.IGNORECASE
PatternFound(text, p) ==
    LET t == LowerStr(text)
        At(i) ==
            CASE p = 1 -> /\ WordBoundary(t, i)
                          /\ i + 3 <= Len(t) /\ \A n \in 0..3 : t[i + n] \in Digits
                          /\ WordBoundary(t, i + 4)
              [] p = 2 -> \/ /\ WordBoundary(t, i)
                             /\ LitAt(t, i, LitDoiColon)
                             /\ LitAt(t, SkipSet(t, i + 4, Whitespace), LitTenDot)
                          \/ LitAt(t, i, LitTenDot) /\ i + 3 <= Len(t) /\ t[i + 3] \in Digits
              [] p = 3 -> \/ WordBoundary(t, i) /\ LabelledNumberAt(t, i, LitVol, ".")
                          \/ LabelledNumberAt(t, i, LitVolume, SP)
              [] p = 4 -> \/ WordBoundary(t, i) /\ LabelledNumberAt(t, i, LitPp, ".")
                          \/ LabelledNumberAt(t, i, LitPage, "s")
              [] p = 5 -> t[i] \in Digits
    IN  \E i \in 1..Len(t) : At(i)

\* pdf/table_extractor.py:73-91
_looks_like_reference_table(text) ==
    IF text = <<>> \/ Len(Strip(text)) < MinTableTextLen THEN FALSE
    ELSE Cardinality({p \in 1..5 : PatternFound(text, p)}) >= MinPatternMatches

(* Tables: some rows of one kind, then some rows of another *)

MaxFirstRows == 11          \* rows of the first kind
MaxMoreRows == 2            \* rows of the second kind

TableInputs ==
    [first : TableRows, n_first : 1..MaxFirstRows,
     more : TableRows, n_more : 0..MaxMoreRows]

\* the rows of a table, as records of text and marker
RowsOf(in) ==
    [n \in 1..(in.n_first + in.n_more) |-> IF n <= in.n_first THEN in.first ELSE in.more]

\* the table as the PDF library gives it: rows of cell texts
TableOf(in) ==
    [n \in 1..Len(RowsOf(in)) |-> [c \in 1..Len(RowsOf(in)[n]) |-> RowsOf(in)[n][c].text]]

InitTables ==
    /\ IdleFallbacks
    /\ IdleSegmenter
    /\ IdleParser
    /\ IdleLayout
    /\ IdleBibtex
    /\ IdleExtractors
    /\ IdleHttp
    /\ IdleCoordinator
    /\ IdleFingerprints
    /\ IdleCandidates
    /\ IdlePage
    /\ IdleBlocks
    /\ tab_input \in TableInputs
    /\ tab_who = "none"
    /\ tab_result = FALSE

\* TableExtractor._is_reference_table(table) of fallbacks/table_extractor.py
IsReferenceTable ==
    /\ tab_who = "none"
    /\ tab_who' = "fallbacks"
    /\ tab_result' = _is_reference_table(TableOf(tab_input))
    /\ UNCHANGED tab_input
    /\ UNCHANGED nontabvars

\* TableExtractor._looks_like_reference_table(_normalize_table_cells(table)) of
\* pdf/table_extractor.py (extract_from_pdf, lines 41-42)
LooksLikeReferenceTable ==
    /\ tab_who = "none"
    /\ tab_who' = "pdf"
    /\ tab_result' = _looks_like_reference_table(_normalize_table_cells(TableOf(tab_input)))
    /\ UNCHANGED tab_input
    /\ UNCHANGED nontabvars

NextTables == IsReferenceTable \/ LooksLikeReferenceTable

SpecTables == InitTables /\ [][NextTables]_vars

----------------------------------------------------------------------------
(* PDFExtractor.extract (extractor/pdf_extractor.py) and                    *)
(* WebExtractor.extract (extractor/web_extractor.py)                        *)

\* the methods of the class BibTeXParser that pdf_extractor.py imports
\* (from src.extractor.bibtex_parser)
BibTeXParserMethods == {"extract_from_text", "_parse_bibtex_entry"}

\* the methods of the class TableExtractor that pdf_extractor.py imports
\* (from src.extractor.pdf.table_extractor)
PdfTableExtractorMethods ==
    {"extract_from_pdf", "_normalize_table_cells", "_looks_like_reference_table",
     "_parse_table_references"}

\* text[:100]
NormalizedLen == 100

\* re.sub(r'[^\w\s]', '', text)
RemovePunctuation(text) == SelectSeq(text, LAMBDA c : c \in WordChars \cup Whitespace)

\* PDFExtractor._normalize_ref_text
_normalize_ref_text(text) ==
    Strip(Take(CollapseWs(RemovePunctuation(LowerStr(text))), NormalizedLen))

\* a Reference of the extractors: its raw text and metadata['extraction_method']
\* ("none" when the reference has no metadata)
ExtractedRef(text, method) == [raw_text |-> text, extraction_method |-> method]

\* one loop of _apply_fallbacks over the references a fallback produced: a
\* reference whose normalized text is new is appended and its text recorded
RECURSIVE AppendUnseen(_, _, _, _)
AppendUnseen(all_refs, seen_texts, produced, method) ==
    IF produced = <<>> THEN [all_refs |-> all_refs, seen_texts |-> seen_texts]
    ELSE LET normalized == _normalize_ref_text(Head(produced))
         IN  IF normalized \notin seen_texts
             THEN AppendUnseen(Append(all_refs, ExtractedRef(Head(produced), method)),
                               seen_texts \cup {normalized}, Tail(produced), method)
             ELSE AppendUnseen(all_refs, seen_texts, Tail(produced), method)

\* PDFExtractor._apply_fallbacks: the references it returns, the fallback
\* methods it calls, and whether a call raises AttributeError because the
\* object has no such method
_apply_fallbacks(in, primary_refs) ==
    LET seen_texts == {_normalize_ref_text(primary_refs[n].raw_text) : n \in 1..Len(primary_refs)}
        Missing(methods, called) == \E m \in called : m \notin methods
        bibtex_calls ==
            IF in.bibtex # <<>> THEN {"has_bibtex", "extract_bibtex_blocks", "parse_bibtex_entry"}
            ELSE {"has_bibtex"}
        after_bibtex == AppendUnseen(primary_refs, seen_texts, in.bibtex, "bibtex_fallback")
        table_calls ==
            IF in.tables # <<>> THEN {"has_tables", "extract_from_tables"} ELSE {"has_tables"}
        after_tables ==
            AppendUnseen(after_bibtex.all_refs, after_bibtex.seen_texts, in.tables, "table_fallback")
    IN  IF Missing(BibTeXParserMethods, bibtex_calls)
        THEN [raised |-> TRUE, all_refs |-> <<>>, invoked |-> {"has_bibtex"}]
        ELSE IF Missing(PdfTableExtractorMethods, table_calls)
        THEN [raised |-> TRUE, all_refs |-> <<>>, invoked |-> bibtex_calls \cup {"has_tables"}]
        ELSE [raised |-> FALSE, all_refs |-> after_tables.all_refs,
              invoked |-> bibtex_calls \cup table_calls]

EmptyResult == [references |-> <<>>, total_references |-> 0, extraction_errors |-> <<>>]

Failed(message) == [EmptyResult EXCEPT !.extraction_errors = <<message>>]

Succeeded(refs) ==
    [EmptyResult EXCEPT !.references = refs, !.total_references = Len(refs)]

\* PDFExtractor.extract: how the call ends, its ExtractionResult and the
\* fallback methods it called
PdfExtract(in) ==
    LET primary == [n \in 1..Len(in.primary) |-> ExtractedRef(in.primary[n], "none")]
        fallbacks == _apply_fallbacks(in, primary)
    IN  IF in.exists = "oserror"
        THEN [state |-> "raised", result |-> EmptyResult, invoked |-> {}]
        ELSE IF in.exists = "no"
        THEN [state |-> "returned", result |-> Failed("PDF file not found"), invoked |-> {}]
        ELSE IF ~in.suffix_pdf
        THEN [state |-> "returned", result |-> Failed("File is not a PDF"), invoked |-> {}]
        ELSE IF in.fault # "none"
        THEN [state |-> "returned", result |-> Failed("Error extracting PDF"), invoked |-> {}]
        ELSE IF ~in.enable_fallbacks
        THEN [state |-> "returned", result |-> Succeeded(primary), invoked |-> {}]
        ELSE IF fallbacks.raised
        THEN [state |-> "returned", result |-> Failed("Error extracting PDF"),
              invoked |-> fallbacks.invoked]
        ELSE [state |-> "returned", result |-> Succeeded(fallbacks.all_refs),
              invoked |-> fallbacks.invoked]

\* WebExtractor.extract
WebExtract(in) ==
    IF ~in.valid_url
    THEN [state |-> "returned", result |-> Failed("Invalid URL format"), invoked |-> {}]
    ELSE IF in.fault = "request"
    THEN [state |-> "returned", result |-> Failed("Error fetching URL"), invoked |-> {}]
    ELSE IF in.fault # "none"
    THEN [state |-> "returned", result |-> Failed("Error extracting references"), invoked |-> {}]
    ELSE [state |-> "returned",
          result |-> Succeeded([n \in 1..Len(in.primary) |-> ExtractedRef(in.primary[n], "none")]),
          invoked |-> {}]

\* the longest list of references the primary extraction yields
MaxExtracted == 3

\* the longest list of references one fallback yields
MaxFallbackRefs == 1

\* raw texts of references: the first two and the last two normalize alike
RawTexts ==
    {<<"A", ".", SP, "B", "e", "e", ",", SP, "2", "0", "2", "0">>,
     <<"a", SP, SP, "b", "e", "e", SP, "2", "0", "2", "0", "!">>,
     Rep("x", NormalizedLen) \o <<"a">>,
     Rep("x", NormalizedLen) \o <<"b">>}

FallbackTexts ==
    {<<"a", SP, "B", "E", "E", SP, "2", "0", "2", "0">>,
     <<"C", ".", SP, "D", "e", "e", ",", SP, "2", "0", "2", "1">>}

\* what pdf_path.exists() does, and where the reading of the PDF fails
ExistsOutcomes == {"yes", "no", "oserror"}
PdfFaults == {"none", "open", "layout", "parse"}
WebFaults == {"none", "request", "html", "parse"}

PdfSources ==
    [who : {"pdf"}, exists : ExistsOutcomes, suffix_pdf : BOOLEAN,
     enable_fallbacks : BOOLEAN, fault : PdfFaults,
     primary : SeqsUpTo(RawTexts, MaxExtracted),
     bibtex : SeqsUpTo(FallbackTexts, MaxFallbackRefs),
     tables : SeqsUpTo(FallbackTexts, MaxFallbackRefs)]

WebSources ==
    [who : {"web"}, valid_url : BOOLEAN, fault : WebFaults,
     primary : SeqsUpTo(RawTexts, MaxExtracted)]

InitExtractors ==
    /\ IdleFallbacks
    /\ IdleSegmenter
    /\ IdleParser
    /\ IdleLayout
    /\ IdleBibtex
    /\ IdleTables
    /\ IdleHttp
    /\ IdleCoordinator
    /\ IdleFingerprints
    /\ IdleCandidates
    /\ IdlePage
    /\ IdleBlocks
    /\ ext_input \in PdfSources \cup WebSources
    /\ ext_state = "ready"
    /\ ext_result = EmptyResult
    /\ ext_invoked = {}

\* PDFExtractor().extract(source)
PdfExtractorExtract ==
    /\ ext_state = "ready"
    /\ ext_input.who = "pdf"
    /\ ext_state' = PdfExtract(ext_input).state
    /\ ext_result' = PdfExtract(ext_input).result
    /\ ext_invoked' = PdfExtract(ext_input).invoked
    /\ UNCHANGED ext_input
    /\ UNCHANGED nonextvars

\* WebExtractor().extract(source)
WebExtractorExtract ==
    /\ ext_state = "ready"
    /\ ext_input.who = "web"
    /\ ext_state' = WebExtract(ext_input).state
    /\ ext_result' = WebExtract(ext_input).result
    /\ ext_invoked' = WebExtract(ext_input).invoked
    /\ UNCHANGED ext_input
    /\ UNCHANGED nonextvars

NextExtractors == PdfExtractorExtract \/ WebExtractorExtract

SpecExtractors == InitExtractors /\ [][NextExtractors]_vars

----------------------------------------------------------------------------
(* HTTPClient.request (src/http_client.py)                                  *)
(* Delays are counted in tenths of a second.                                *)

DEFAULT_RETRYABLE_STATUS_CODES == {403, 429, 500, 502, 503, 504}
DEFAULT_ROTATE_STATUS_CODES == {403, 429}

\* kwargs.pop("rotate_user_agent_on_retry", True) of a call without that argument
rotate_on_retry == TRUE

\* status_code of an HTTPClientError without response (None)
NoStatus == 0

\* the User-Agent header a requests.Session has of its own
SessionUserAgent == "python-requests"

UserAgentPool == <<"agent-a", "agent-b", "agent-c">>

\* self._user_agents of a client constructed with the first n agents
_user_agents(client) == SubSeq(UserAgentPool, 1, client.n_agents)

\* max_retries of request: at least 1
EffectiveMaxRetries(client) ==
    IF client.max_retries < 1 THEN 1 ELSE client.max_retries

\* retry_delay of request: at least 0
EffectiveRetryDelay(client) ==
    IF client.retry_delay < 0 THEN 0 ELSE client.retry_delay

\* backoff_factor of request: at least 1
EffectiveBackoffFactor(client) ==
    IF client.backoff_factor < 1 THEN 1 ELSE client.backoff_factor

\* __init__: the cycle stands on the first agent, which becomes the session's
\* User-Agent unless the session has one of its own (headers.setdefault)
InitialAgent(client) ==
    [index |-> 1,
     header |-> IF client.session_has_agent THEN SessionUserAgent
                ELSE _user_agents(client)[1]]

\* rotate_user_agent: the next agent of the cycle becomes the header
rotate_user_agent(client, agent) ==
    LET next == (agent.index % client.n_agents) + 1
    IN  [index |-> next, header |-> _user_agents(client)[next]]

\* what one call of session.request does: it raises requests.RequestException
\* or answers with a status
Statuses == {200, 304, 403, 404, 429, 503}

Outcomes ==
    {[exc |-> TRUE, status |-> NoStatus]} \cup {[exc |-> FALSE, status |-> s] : s \in Statuses}

IsSuccess(outcome) == ~outcome.exc /\ 200 <= outcome.status /\ outcome.status < 300

\* the attempt ends in `continue`
Retries_AnyStatus(client, attempt, outcome) ==
    IF outcome.exc THEN attempt # EffectiveMaxRetries(client)
    ELSE ~IsSuccess(outcome) /\ attempt < EffectiveMaxRetries(client)

Retries(client, attempt, outcome) ==
    IF outcome.exc THEN attempt # EffectiveMaxRetries(client)
    ELSE /\ ~IsSuccess(outcome)
         /\ attempt < EffectiveMaxRetries(client)
         /\ outcome.status \in DEFAULT_RETRYABLE_STATUS_CODES

\* the attempt that ends in `continue` rotates the user agent first
Rotates(outcome) ==
    IF outcome.exc THEN rotate_on_retry
    ELSE rotate_on_retry /\ outcome.status \in DEFAULT_ROTATE_STATUS_CODES

\* the largest max_retries a client is constructed with
MaxRetries == 3

RetryDelays == {-1, 1, 5}

BackoffFactors == {0, 1, 2}

Clients ==
    [max_retries : 0..MaxRetries, retry_delay : RetryDelays,
     backoff_factor : BackoffFactors, n_agents : 1..Len(UserAgentPool),
     session_has_agent : BOOLEAN]

InitHttp ==
    /\ IdleFallbacks
    /\ IdleSegmenter
    /\ IdleParser
    /\ IdleLayout
    /\ IdleBibtex
    /\ IdleTables
    /\ IdleExtractors
    /\ IdleCoordinator
    /\ IdleFingerprints
    /\ IdleCandidates
    /\ IdlePage
    /\ IdleBlocks
    /\ http_client \in Clients
    /\ http_pc = "ready"
    /\ http_attempt = 0
    /\ http_delay = EffectiveRetryDelay(http_client)
    /\ http_agent = InitialAgent(http_client)
    /\ http_calls = <<>>
    /\ http_last = [status |-> NoStatus, exception |-> FALSE]

\* one iteration of the loop of request, in which session.request has the
\* given outcome; the iteration that leaves the loop also returns or raises
Attempt(outcome) ==
    LET attempt == http_attempt + 1
        call == [agent |-> http_agent.header,
                 waited |-> attempt > 1,
                 slept |-> IF attempt > 1 THEN http_delay ELSE 0,
                 outcome |-> outcome]
    IN  /\ http_pc = "ready"
        /\ http_client.n_agents > 0
        /\ attempt <= EffectiveMaxRetries(http_client)
        /\ http_attempt' = attempt
        /\ http_calls' = Append(http_calls, call)
        /\ http_last' =
               IF outcome.exc THEN [http_last EXCEPT !.exception = TRUE]
               ELSE IF IsSuccess(outcome) THEN [http_last EXCEPT !.status = outcome.status]
               ELSE IF Retries(http_client, attempt, outcome)
               THEN [http_last EXCEPT !.status = outcome.status]
               ELSE [status |-> outcome.status,
                     exception |-> http_last.exception \/ outcome.status >= 400]
        /\ IF IsSuccess(outcome)
           THEN /\ http_pc' = "returned"
                /\ UNCHANGED <<http_delay, http_agent>>
           ELSE IF Retries(http_client, attempt, outcome)
           THEN /\ http_pc' = IF attempt < EffectiveMaxRetries(http_client)
                              THEN "ready" ELSE "raised"
                /\ http_agent' = IF Rotates(outcome)
                                 THEN rotate_user_agent(http_client, http_agent)
                                 ELSE http_agent
                /\ http_delay' = http_delay * EffectiveBackoffFactor(http_client)
           ELSE /\ http_pc' = "raised"
                /\ UNCHANGED <<http_delay, http_agent>>
        /\ UNCHANGED http_client
        /\ UNCHANGED nonhttpvars

NextHttp == \E outcome \in Outcomes : Attempt(outcome)

SpecHttp == InitHttp /\ [][NextHttp]_vars

\* session.request returns or raises within its timeout, so the loop goes on
SpecHttpFair == SpecHttp /\ WF_vars(NextHttp)

----------------------------------------------------------------------------
(* DownloadCoordinator._try_downloaders (downloader/coordinator.py)         *)

\* self.downloaders, in priority order, and the source each one reports
downloaders == <<"DOIResolver", "ArxivDownloader", "PubMedDownloader", "SciHubDownloader">>

SourceOf == <<"doi_resolver", "arxiv", "pubmed", "scihub">>

\* the values of the enumeration DownloadSource
DownloadSource ==
    {"open_access", "doi_resolver", "arxiv", "biorxiv", "chemrxiv", "pubmed",
     "pubmed_central", "scihub", "journal", "unknown"}

\* the values of the enumeration DownloadStatus
DownloadStatus == {"success", "failed", "skipped", "not_found"}

NoDownloadResult == [status |-> "none", source |-> "none", error_message |-> ""]

\* DownloadResult(...) validates its fields: status and source are required
\* members of their enumerations, and None ("none") is not one
ValidDownloadResult(r) == r.status \in DownloadStatus /\ r.source \in DownloadSource

\* what downloader.can_download(reference) does
CanDownloadOutcomes == {"yes", "no", "raises"}

\* what downloader.download(reference, output_path) does: it raises, returns
\* None or returns a DownloadResult of the given status
DownloadOutcomes == DownloadStatus \cup {"none", "raises"}

InitCoordinator ==
    /\ IdleFallbacks
    /\ IdleSegmenter
    /\ IdleParser
    /\ IdleLayout
    /\ IdleBibtex
    /\ IdleTables
    /\ IdleExtractors
    /\ IdleHttp
    /\ IdleFingerprints
    /\ IdleCandidates
    /\ IdlePage
    /\ IdleBlocks
    /\ dl_pc = "loop"
    /\ dl_index = 1
    /\ dl_log = <<>>
    /\ dl_result = NoDownloadResult

\* one iteration of the loop: the downloader is asked whether it can download
\* and, if so, downloads
TryDownloader(can, outcome) ==
    LET called == can = "yes"
        tried == [downloader |-> downloaders[dl_index], can |-> can,
                   outcome |-> IF called THEN outcome ELSE "not_called"]
    IN  /\ dl_pc = "loop"
        /\ dl_index <= Len(downloaders)
        /\ dl_log' = Append(dl_log, tried)
        /\ IF called /\ outcome = "success"
           THEN /\ dl_pc' = "returned"
                /\ dl_result' = [status |-> "success", source |-> SourceOf[dl_index],
                                 error_message |-> ""]
                /\ UNCHANGED dl_index
           ELSE /\ dl_index' = dl_index + 1
                /\ UNCHANGED <<dl_pc, dl_result>>
        /\ UNCHANGED nondlvars

\* after the loop: DownloadResult(status=FAILED, source=None, error_message=...)
\* is constructed and returned, unless its construction raises
AllFailed ==
    LET r == [status |-> "failed", source |-> "none",
              error_message |-> "All download sources failed"]
    IN  /\ dl_pc = "loop"
        /\ dl_index > Len(downloaders)
        /\ IF ValidDownloadResult(r)
           THEN dl_pc' = "returned" /\ dl_result' = r
           ELSE dl_pc' = "raised" /\ UNCHANGED dl_result
        /\ UNCHANGED <<dl_index, dl_log>>
        /\ UNCHANGED nondlvars

NextCoordinator ==
    \/ \E can \in CanDownloadOutcomes, outcome \in DownloadOutcomes : TryDownloader(can, outcome)
    \/ AllFailed

SpecCoordinator == InitCoordinator /\ [][NextCoordinator]_vars

----------------------------------------------------------------------------
(* src/extractor/fallbacks.py: the two fingerprint functions on one reference *)

\* DOI values, with whether Python takes them as present and their lower case
DoiCases ==
    { [value |-> None, present |-> FALSE, lowered |-> <<>>],
      [value |-> <<>>, present |-> FALSE, lowered |-> <<>>],
      [value |-> <<"1", "0", ".", "1", "/", "A", "b">>, present |-> TRUE,
       lowered |-> <<"1", "0", ".", "1", "/", "a", "b">>] }

\* titles, with their lower-cased, stripped, whitespace-collapsed form
TitleCases ==
    { [value |-> None, present |-> FALSE, normalized |-> <<>>],
      [value |-> <<>>, present |-> FALSE, normalized |-> <<>>],
      [value |-> <<SP, "T", SP, NL, "A", SP>>, present |-> TRUE,
       normalized |-> <<"t", SP, "a">>] }

\* years; None and 0 are both false in a condition
YearCases ==
    { [value |-> NoneYear, present |-> FALSE],
      [value |-> 0, present |-> FALSE],
      [value |-> 2023, present |-> TRUE] }

\* raw texts: "first100" is the first 100 characters of raw_text lower-cased,
\* stripped and with whitespace collapsed; "stripped100" is the first 100
\* characters of the lower-cased stripped raw_text with whitespace collapsed
RawCases ==
    { [value |-> <<"R", SP, "a">>,
       first100 |-> <<"r", SP, "a">>, stripped100 |-> <<"r", SP, "a">>],
      [value |-> <<SP, SP>> \o Rep("A", 100),
       first100 |-> Rep("a", 98), stripped100 |-> Rep("a", 100)],
      [value |-> Rep("A", 99) \o <<SP, "B">>,
       first100 |-> Rep("a", 99), stripped100 |-> Rep("a", 99) \o <<SP>>],
      [value |-> Rep("A", 120),
       first100 |-> Rep("a", 100), stripped100 |-> Rep("a", 100)],
      [value |-> <<"A", SP, SP>> \o Rep("B", 100),
       first100 |-> <<"a", SP>> \o Rep("b", 97),
       stripped100 |-> <<"a", SP>> \o Rep("b", 97)] }

InitFingerprints ==
    /\ IdleFallbacks
    /\ IdleSegmenter
    /\ IdleParser
    /\ IdleLayout
    /\ IdleBibtex
    /\ IdleTables
    /\ IdleExtractors
    /\ IdleHttp
    /\ IdleCoordinator
    /\ IdleCandidates
    /\ IdlePage
    /\ IdleBlocks
    /\ \E d \in DoiCases, t \in TitleCases, y \in YearCases, r \in RawCases :
           fp_case = [none |-> FALSE, doi |-> d, title |-> t, year |-> y, raw |-> r,
                      ref |-> Reference(r.value, d.value, t.value, y.value)]
    /\ fp_accepted = {}
    /\ fp_candidate = {}
    /\ fp_done = {}

\* _create_reference_fingerprint_set([ref])
CreateFingerprintSet ==
    /\ ~fp_case.none
    /\ "accepted" \notin fp_done
    /\ fp_accepted' = _create_reference_fingerprint_set(<<fp_case.ref>>)
    /\ fp_done' = fp_done \cup {"accepted"}
    /\ UNCHANGED <<fp_case, fp_candidate>>
    /\ UNCHANGED nonfpvars

\* _deduplicate_references([ref], set()), which fills the set it is given
DeduplicateOne ==
    /\ ~fp_case.none
    /\ "candidate" \notin fp_done
    /\ fp_candidate' = _deduplicate_references(<<fp_case.ref>>, {}).fingerprints
    /\ fp_done' = fp_done \cup {"candidate"}
    /\ UNCHANGED <<fp_case, fp_accepted>>
    /\ UNCHANGED nonfpvars

NextFingerprints == CreateFingerprintSet \/ DeduplicateOne

SpecFingerprints == InitFingerprints /\ [][NextFingerprints]_vars

----------------------------------------------------------------------------
(* src/extractor/pdf_extractor.py: PDFExtractor._is_valid_reference_candidate *)

MinCandidateLen == 15       \* pdf_extractor.py:286
MinCaptionWords == 15       \* pdf_extractor.py:306
MinPlainWords == 8          \* pdf_extractor.py:323
MinDoiPrefixDigits == 4     \* pdf_extractor.py:301, 312, \d{4,}

\* the characters of a string
Chars(str) == [i \in 1..Len(str) |-> SubSeq(str, i, i)]

\* len(text.split())
WordCount(t) ==
    Cardinality({i \in 1..Len(t) :
        t[i] \notin Whitespace /\ (i = 1 \/ t[i - 1] \in Whitespace)})

AsciiUpper == {c \in Letters : LowerChar(c) # c}
AsciiLower == Letters \ AsciiUpper

\* pdf_extractor.py:293
caption_markers == {Chars("figure"), Chars("fig."), Chars("fig "), Chars("table"), Chars("scheme")}

\* re.search(r'\b(19|20)\d{2}\b', text)
HasYear(t) ==
    \E i \in 1..Len(t) : WordBoundary(t, i) /\ YearAt(t, i) /\ WordBoundary(t, i + 4)

\* re.search(r'10\.\d{4,}', text)
HasDoiPrefix(t) ==
    \E i \in 1..Len(t) :
        /\ LitAt(t, i, <<"1", "0", ".">>)
        /\ SkipSet(t, i + 3, Digits) - (i + 3) >= MinDoiPrefixDigits

\* [A-Z][a-z]+,?\s+[A-Z]\. stands in t at index i
AuthorInitialAt(t, i) ==
    /\ t[i] \in AsciiUpper
    /\ LET k == SkipSet(t, i + 1, AsciiLower)
           c == IF k <= Len(t) /\ t[k] = "," THEN k + 1 ELSE k
           m == SkipSet(t, c, Whitespace)
       IN  /\ k > i + 1
           /\ m > c
           /\ m + 1 <= Len(t)
           /\ t[m] \in AsciiUpper
           /\ t[m + 1] = "."

\* a filter that accepts a plain block of eight words
_is_valid_reference_candidate_EightWords(text) ==
    IF text = <<>> \/ Len(Strip(text)) < MinCandidateLen
    THEN FALSE
    ELSE LET text_lower == Lower(text)
             starts_with_caption ==
                 \E marker \in caption_markers : LitAt(Strip(text_lower), 1, marker)
             has_year == HasYear(text)
             has_doi == Contains(text_lower, Chars("doi")) \/ HasDoiPrefix(text)
             has_http == Contains(text_lower, Chars("http"))
             has_authors == \E i \in 1..Len(text) : AuthorInitialAt(text, i)
             has_url == Contains(text, Chars("http://")) \/ Contains(text, Chars("https://"))
             word_count == WordCount(text)
         IN  IF /\ starts_with_caption
                /\ word_count < MinCaptionWords
                /\ ~(has_year \/ has_doi \/ has_http)
             THEN FALSE
             ELSE IF has_year \/ has_doi \/ has_authors \/ has_url
                  THEN TRUE
                  ELSE word_count >= MinPlainWords

\* pdf_extractor.py:280-327
_is_valid_reference_candidate(text) ==
    IF text = <<>> \/ Len(Strip(text)) < MinCandidateLen
    THEN FALSE
    ELSE LET text_lower == Lower(text)
             starts_with_caption ==
                 \E marker \in caption_markers : LitAt(Strip(text_lower), 1, marker)
             has_year == HasYear(text)
             has_doi == Contains(text_lower, Chars("doi")) \/ HasDoiPrefix(text)
             has_http == Contains(text_lower, Chars("http"))
             has_authors == \E i \in 1..Len(text) : AuthorInitialAt(text, i)
             has_url == Contains(text, Chars("http://")) \/ Contains(text, Chars("https://"))
             word_count == WordCount(text)
         IN  IF /\ starts_with_caption
                /\ word_count < MinCaptionWords
                /\ ~(has_year \/ has_doi \/ has_http)
             THEN FALSE
             ELSE IF has_year \/ has_doi \/ has_authors \/ has_url
                  THEN TRUE
                  ELSE word_count > MinPlainWords

\* how a block can begin, with whether it begins with a caption keyword
CandidateHeads ==
    { [text |-> "Figure 3", words |-> 2, caption |-> TRUE],
      [text |-> "fig. 2", words |-> 2, caption |-> TRUE],
      [text |-> "Fig 4", words |-> 2, caption |-> TRUE],
      [text |-> "  Table 2", words |-> 2, caption |-> TRUE],
      [text |-> "SCHEME 1", words |-> 2, caption |-> TRUE],
      [text |-> "Figures", words |-> 1, caption |-> TRUE],
      [text |-> "Fight 1", words |-> 2, caption |-> FALSE],
      [text |-> "Results 5", words |-> 2, caption |-> FALSE],
      [text |-> "Configure it", words |-> 2, caption |-> FALSE] }

\* what a block can carry.  year, doi, url, authors: it contains a
\* publication year, a DOI, a URL, an author with an initial.  doi_marker,
\* http_marker, url_marker: it contains the letters "doi" or "10." and four
\* digits, the letters "http", the text "http://" or "https://".
Feature(text, words, year, doi, url, authors, doi_marker, http_marker, url_marker) ==
    [text |-> text, words |-> words, year |-> year, doi |-> doi, url |-> url,
     authors |-> authors, doi_marker |-> doi_marker, http_marker |-> http_marker,
     url_marker |-> url_marker]

CandidateFeatures ==
    { Feature("", 0, FALSE, FALSE, FALSE, FALSE, FALSE, FALSE, FALSE),
      Feature("2020", 1, TRUE, FALSE, FALSE, FALSE, FALSE, FALSE, FALSE),
      Feature("(1999)", 1, TRUE, FALSE, FALSE, FALSE, FALSE, FALSE, FALSE),
      Feature("12020", 1, FALSE, FALSE, FALSE, FALSE, FALSE, FALSE, FALSE),
      Feature("10.1234/x", 1, FALSE, TRUE, FALSE, FALSE, TRUE, FALSE, FALSE),
      Feature("10.12", 1, FALSE, FALSE, FALSE, FALSE, FALSE, FALSE, FALSE),
      Feature("doing", 1, FALSE, FALSE, FALSE, FALSE, TRUE, FALSE, FALSE),
      Feature("https://x.org", 1, FALSE, FALSE, TRUE, FALSE, FALSE, TRUE, TRUE),
      Feature("http proxy", 2, FALSE, FALSE, FALSE, FALSE, FALSE, TRUE, FALSE),
      Feature("Smith, J.", 2, FALSE, FALSE, FALSE, TRUE, FALSE, FALSE, FALSE),
      Feature("Smith J.", 2, FALSE, FALSE, FALSE, TRUE, FALSE, FALSE, FALSE),
      Feature("smith, j.", 2, FALSE, FALSE, FALSE, FALSE, FALSE, FALSE, FALSE) }

\* how many further words "ww" follow
FillerCounts == {0, 3, 5, 6, 7, 11, 12, 13}

RECURSIVE Filler(_)
Filler(n) == IF n = 0 THEN <<>> ELSE Chars(" ww") \o Filler(n - 1)

CandidateText(in) ==
    Chars(in.head.text)
        \o (IF in.feature.text = "" THEN <<>> ELSE <<SP>> \o Chars(in.feature.text))
        \o Filler(in.filler)

InitCandidates ==
    /\ IdleFallbacks
    /\ IdleSegmenter
    /\ IdleParser
    /\ IdleLayout
    /\ IdleBibtex
    /\ IdleTables
    /\ IdleExtractors
    /\ IdleHttp
    /\ IdleCoordinator
    /\ IdleFingerprints
    /\ IdlePage
    /\ IdleBlocks
    /\ \E h \in CandidateHeads, f \in CandidateFeatures, n \in FillerCounts :
           cand_in = [none |-> FALSE, head |-> h, feature |-> f, filler |-> n]
    /\ cand_result = "none"

\* the test of pdf_extractor.py:200
FilterCandidate ==
    /\ ~cand_in.none
    /\ cand_result = "none"
    /\ cand_result' = IF _is_valid_reference_candidate(CandidateText(cand_in))
                      THEN "accepted" ELSE "rejected"
    /\ UNCHANGED cand_in
    /\ UNCHANGED noncandvars

NextCandidates == FilterCandidate

SpecCandidates == InitCandidates /\ [][NextCandidates]_vars

----------------------------------------------------------------------------
(* src/extractor/pdf/layout.py: _group_words_into_lines on its own *)

MaxLineWords == 4           \* words given to _group_words_into_lines

LineXPositions == <<0, 20>>
LineTops == <<100, 102, 103, 104, 110>>

\* the word at the i-th x position and the j-th top
LineWordAt(i, j) ==
    [text |-> <<WordLabels[(i - 1) * Len(LineTops) + j]>>,
     x0 |-> LineXPositions[i], x1 |-> LineXPositions[i] + WordWidth, top |-> LineTops[j]]

RECURSIVE LineWordList(_, _)
LineWordList(S, reversed) ==
    IF S = {} THEN <<>>
    ELSE LET p == CHOOSE q \in S :
                      \A r \in S : q[1] < r[1] \/ (q[1] = r[1] /\ q[2] <= r[2])
         IN  IF reversed THEN LineWordList(S \ {p}, reversed) \o <<LineWordAt(p[1], p[2])>>
             ELSE <<LineWordAt(p[1], p[2])>> \o LineWordList(S \ {p}, reversed)

LinePages ==
    {LineWordList(S, reversed) :
        S \in {T \in SUBSET ((1..Len(LineXPositions)) \X (1..Len(LineTops))) :
                  Cardinality(T) \in 1..MaxLineWords},
        reversed \in BOOLEAN}

InitLines ==
    /\ IdleFallbacks
    /\ IdleSegmenter
    /\ IdleParser
    /\ IdleLayout
    /\ IdleBibtex
    /\ IdleTables
    /\ IdleExtractors
    /\ IdleHttp
    /\ IdleCoordinator
    /\ IdleFingerprints
    /\ IdleCandidates
    /\ IdleBlocks
    /\ pg_case = <<>>
    /\ pg_words \in LinePages
    /\ pg_width = 0
    /\ pg_op = "none"
    /\ pg_result = <<>>

\* LayoutAwareExtractor._group_words_into_lines(words)
GroupWordsIntoLines ==
    /\ pg_op = "none"
    /\ pg_words # <<>>
    /\ pg_case = <<>>
    /\ pg_width = 0
    /\ pg_op' = "lines"
    /\ pg_result' = _group_words_into_lines(pg_words)
    /\ UNCHANGED <<pg_case, pg_words, pg_width>>
    /\ UNCHANGED nonpgvars

NextLines == GroupWordsIntoLines

SpecLines == InitLines /\ [][NextLines]_vars

----------------------------------------------------------------------------
(* src/extractor/pdf/layout.py: _detect_columns on its own *)

MaxColumnWords == 4         \* words given to _detect_columns

ColumnWordWidths == <<2, 3>>
ColumnPageWidths == {30, 100, 400}

\* the word at the i-th x position with the j-th width
ColumnWordAt(i, j) ==
    [text |-> <<WordLabels[(i - 1) * Len(ColumnWordWidths) + j]>>,
     x0 |-> XPositions[i], x1 |-> XPositions[i] + ColumnWordWidths[j], top |-> 100]

RECURSIVE ColumnWordList(_)
ColumnWordList(S) ==
    IF S = {} THEN <<>>
    ELSE LET p == CHOOSE q \in S :
                      \A r \in S : q[2] < r[2] \/ (q[2] = r[2] /\ q[1] <= r[1])
         IN  <<ColumnWordAt(p[1], p[2])>> \o ColumnWordList(S \ {p})

ColumnPages ==
    {ColumnWordList(S) :
        S \in {T \in SUBSET ((1..Len(XPositions)) \X (1..Len(ColumnWordWidths))) :
                  Cardinality(T) \in 1..MaxColumnWords}}

InitColumns ==
    /\ IdleFallbacks
    /\ IdleSegmenter
    /\ IdleParser
    /\ IdleLayout
    /\ IdleBibtex
    /\ IdleTables
    /\ IdleExtractors
    /\ IdleHttp
    /\ IdleCoordinator
    /\ IdleFingerprints
    /\ IdleCandidates
    /\ IdleBlocks
    /\ pg_case = <<>>
    /\ pg_words \in ColumnPages
    /\ pg_width \in ColumnPageWidths
    /\ pg_op = "none"
    /\ pg_result = <<>>

\* LayoutAwareExtractor._detect_columns(words, page)
DetectColumns ==
    /\ pg_op = "none"
    /\ pg_words # <<>>
    /\ pg_width > 0
    /\ pg_op' = "columns"
    /\ pg_result' = _detect_columns(pg_words, pg_width)
    /\ UNCHANGED <<pg_case, pg_words, pg_width>>
    /\ UNCHANGED nonpgvars

NextColumns == DetectColumns

SpecColumns == InitColumns /\ [][NextColumns]_vars

----------------------------------------------------------------------------
(* src/extractor/pdf/layout.py: _filter_caption_words *)

MaxShortLineWords == 6      \* layout.py:197, word_count < 6

\* layout.py:29-32
caption_keywords ==
    {Chars("figure"), Chars("fig."), Chars("fig "), Chars("table"), Chars("scheme"),
     Chars("appendix"), Chars("supplementary"), Chars("supplement")}

\* re.match(r'^\s*[\[\(]?\d+[\]\)]?\.?\s', t)
HasNumbering(t) ==
    LET i0 == SkipSet(t, 1, Whitespace)
        i1 == IF i0 <= Len(t) /\ t[i0] \in {"[", "("} THEN i0 + 1 ELSE i0
        d == SkipSet(t, i1, Digits)
        i2 == IF d <= Len(t) /\ t[d] \in {"]", ")"} THEN d + 1 ELSE d
        i3 == IF i2 <= Len(t) /\ t[i2] = "." THEN i2 + 1 ELSE i2
    IN  d > i1 /\ i3 <= Len(t) /\ t[i3] \in Whitespace

\* " ".join(w['text'] for w in line).strip().lower()
LineTextOf(line) == Lower(Strip(JoinLines([i \in 1..Len(line) |-> line[i].text], <<SP>>)))

\* a test that keeps a caption only for its reference features, however
\* long the line
KeepsLine_AnyLength(line) ==
    LET line_text == LineTextOf(line)
        starts_with_caption == \E keyword \in caption_keywords : LitAt(line_text, 1, keyword)
        has_year == HasYear(line_text)
        has_doi == Contains(line_text, Chars("doi")) \/ Contains(line_text, Chars("10."))
        has_numbering == HasNumbering(line_text)
        is_likely_reference == has_year \/ has_doi \/ has_numbering
    IN  ~starts_with_caption \/ is_likely_reference

\* the test of layout.py:187-208 on one line
KeepsLine(line) ==
    LET line_text == LineTextOf(line)
        starts_with_caption == \E keyword \in caption_keywords : LitAt(line_text, 1, keyword)
        word_count == WordCount(line_text)
        is_very_short == word_count < MaxShortLineWords
        has_year == HasYear(line_text)
        has_doi == Contains(line_text, Chars("doi")) \/ Contains(line_text, Chars("10."))
        has_numbering == HasNumbering(line_text)
        is_likely_reference == has_year \/ has_doi \/ has_numbering
    IN  ~starts_with_caption \/ is_likely_reference \/ ~is_very_short

\* the words of the lines, one after the other
RECURSIVE FlattenLines(_)
FlattenLines(lines) ==
    IF lines = <<>> THEN <<>> ELSE Head(lines) \o FlattenLines(Tail(lines))

\* layout.py:169-217
_filter_caption_words(words) ==
    IF words = <<>> THEN words
    ELSE LET lines == _group_words_into_lines(words)
             filtered_lines == SelectSeq(lines, KeepsLine)
         IN  FlattenLines(filtered_lines)

(* Pages of lines of text *)

MaxPageLines == 3           \* lines on a page

\* a line of text.  keyword: it starts with figure, fig., fig , table or
\* scheme; listed: it starts with a keyword of the extractor's list; count:
\* its number of words; year, doi, numbering: it has a publication year, a
\* DOI token, a reference number at its head
TextLine(text, keyword, listed, count, year, doi, numbering) ==
    [text |-> text, keyword |-> keyword, listed |-> listed, count |-> count,
     year |-> year, doi |-> doi, numbering |-> numbering]

LineCases ==
    { TextLine(<<"Figure", "3">>, TRUE, TRUE, 2, FALSE, FALSE, FALSE),
      TextLine(<<"Fig.", "2", "shows", "x">>, TRUE, TRUE, 4, FALSE, FALSE, FALSE),
      TextLine(<<"fig", "1">>, TRUE, TRUE, 2, FALSE, FALSE, FALSE),
      TextLine(<<"Table", "2", "a", "b", "c", "d">>, TRUE, TRUE, 6, FALSE, FALSE, FALSE),
      TextLine(<<"Table", "1", "a", "b", "c">>, TRUE, TRUE, 5, FALSE, FALSE, FALSE),
      TextLine(<<"Scheme", "2020">>, TRUE, TRUE, 2, TRUE, FALSE, FALSE),
      TextLine(<<"Figure", "DOI">>, TRUE, TRUE, 2, FALSE, TRUE, FALSE),
      TextLine(<<"Figure", "10.1234/x">>, TRUE, TRUE, 2, FALSE, TRUE, FALSE),
      TextLine(<<"Figure", "[12]", "x">>, TRUE, TRUE, 3, FALSE, FALSE, FALSE),
      TextLine(<<"[12]", "Figure", "x">>, FALSE, FALSE, 3, FALSE, FALSE, TRUE),
      TextLine(<<"Appendix", "A">>, FALSE, TRUE, 2, FALSE, FALSE, FALSE),
      TextLine(<<"Supplementary", "data">>, FALSE, TRUE, 2, FALSE, FALSE, FALSE),
      TextLine(<<"Smith", "J.", "2020">>, FALSE, FALSE, 3, TRUE, FALSE, FALSE),
      TextLine(<<"Results">>, FALSE, FALSE, 1, FALSE, FALSE, FALSE) }

\* the words of the n-th line of a page
LineWords(case, n) ==
    [k \in 1..Len(case.text) |->
        [text |-> Chars(case.text[k]), x0 |-> 10 * k, x1 |-> 10 * k + WordWidth,
         top |-> 100 + 10 * n]]

RECURSIVE PageOfLines(_, _)
PageOfLines(cases, n) ==
    IF n > Len(cases) THEN <<>>
    ELSE LineWords(cases[n], n) \o PageOfLines(cases, n + 1)

Reverse(s) == [i \in 1..Len(s) |-> s[Len(s) + 1 - i]]

InitCaptions ==
    /\ IdleFallbacks
    /\ IdleSegmenter
    /\ IdleParser
    /\ IdleLayout
    /\ IdleBibtex
    /\ IdleTables
    /\ IdleExtractors
    /\ IdleHttp
    /\ IdleCoordinator
    /\ IdleFingerprints
    /\ IdleCandidates
    /\ IdleBlocks
    /\ pg_case \in SeqsUpTo(LineCases, MaxPageLines) \ {<<>>}
    /\ \E reversed \in BOOLEAN :
           pg_words = IF reversed THEN Reverse(PageOfLines(pg_case, 1))
                                  ELSE PageOfLines(pg_case, 1)
    /\ pg_width = 0
    /\ pg_op = "none"
    /\ pg_result = <<>>

\* LayoutAwareExtractor._filter_caption_words(words)
FilterCaptionWords ==
    /\ pg_op = "none"
    /\ pg_case # <<>>
    /\ pg_op' = "captions"
    /\ pg_result' = _filter_caption_words(pg_words)
    /\ UNCHANGED <<pg_case, pg_words, pg_width>>
    /\ UNCHANGED nonpgvars

NextCaptions == FilterCaptionWords

SpecCaptions == InitCaptions /\ [][NextCaptions]_vars

----------------------------------------------------------------------------
(* src/extractor/fallbacks/bibtex_parser.py: extract_bibtex_blocks;
   src/extractor/fallbacks.py: the pattern of _extract_from_bibtex *)

\* the index of the opening brace of the match of @(\w+)\s*\{ that starts at
\* index i, or 0 (bibtex_parser.py:20-23)
EntryBraceAt(t, i) ==
    IF i <= Len(t) /\ t[i] = "@"
    THEN LET j == SkipSet(t, i + 1, WordChars)
             k == SkipSet(t, j, Whitespace)
         IN  IF j > i + 1 /\ k <= Len(t) /\ t[k] = "{" THEN k ELSE 0
    ELSE 0

\* how many times ch stands in t[from..to]
CountChar(t, from, to, ch) == Cardinality({n \in from..to : t[n] = ch})

\* the loop of bibtex_parser.py:46-52: the index just after the first closing
\* brace at which brace_count is back at zero, or 0
BraceEnd(t, brace_start) ==
    LET closing == {e \in brace_start..Len(t) :
                       /\ t[e] = "}"
                       /\ CountChar(t, brace_start, e, "{") = CountChar(t, brace_start, e, "}")}
    IN  IF closing = {} THEN 0 ELSE First(closing) + 1

\* bibtex_parser.py:26-61
extract_bibtex_blocks(text) ==
    LET starts == SortedSeq({i \in 1..Len(text) : EntryBraceAt(text, i) > 0})
        EndPos(i) == BraceEnd(text, EntryBraceAt(text, i))
        Found(i) == EndPos(i) > 0
        found == SelectSeq(starts, Found)
    IN  [n \in 1..Len(found) |-> SubSeq(text, found[n], EndPos(found[n]) - 1)]

\* the index just after the match of [^{}]*(?:\{[^{}]*\}[^{}]*)*\} that starts
\* at index p, or 0
RECURSIVE FlatGroupsEnd(_, _)
FlatGroupsEnd(t, p) ==
    LET q == SkipSet(t, p, AllBut(t, "{") \cap AllBut(t, "}"))
    IN  IF q > Len(t) THEN 0
        ELSE IF t[q] = "}" THEN q + 1
        ELSE LET r == SkipSet(t, q + 1, AllBut(t, "{") \cap AllBut(t, "}"))
             IN  IF r <= Len(t) /\ t[r] = "}" THEN FlatGroupsEnd(t, r + 1) ELSE 0

\* the index just after the match of bibtex_pattern (fallbacks.py:284) that
\* starts at index i, or 0
BibtexPatternEnd(t, i) ==
    IF i <= Len(t) /\ t[i] = "@"
    THEN LET j == SkipSet(t, i + 1, Letters)
             k == SkipSet(t, j, Whitespace)
         IN  IF j > i + 1 /\ k <= Len(t) /\ t[k] = "{" THEN FlatGroupsEnd(t, k + 1) ELSE 0
    ELSE 0

\* re.findall(bibtex_pattern, text, re.DOTALL | re.IGNORECASE) from index i on
RECURSIVE FindBibtexEntries(_, _)
FindBibtexEntries(t, i) ==
    LET hits == {n \in i..Len(t) : BibtexPatternEnd(t, n) > 0}
    IN  IF hits = {} THEN <<>>
        ELSE LET s == First(hits)
                 e == BibtexPatternEnd(t, s)
             IN  <<SubSeq(t, s, e - 1)>> \o FindBibtexEntries(t, e)

(* Texts with BibTeX entries *)

MaxPieces == 3              \* pieces of a text

\* a piece of text and the entries of it whose braces balance, in the order
\* in which they begin
Piece(text, blocks) == [text |-> text, blocks |-> blocks]

EntryPieces ==
    { Piece("see text ", <<>>),
      Piece("@a{k, t={A}} ", <<"@a{k, t={A}}">>),
      Piece("@a{k, t={A {B} C}}\n", <<"@a{k, t={A {B} C}}">>),
      Piece("@b2 {k} ", <<"@b2 {k}">>),
      Piece("@a{k, n={@b{x}}} ", <<"@a{k, n={@b{x}}}", "@b{x}">>),
      Piece("@ {x} a@b ", <<>>),
      Piece("@a{k, t={A ", <<>>) }

BlockTexts == SeqsUpTo(EntryPieces, MaxPieces) \ {<<>>}

RECURSIVE TextOfPieces(_)
TextOfPieces(pieces) ==
    IF pieces = <<>> THEN <<>>
    ELSE Chars(Head(pieces).text) \o TextOfPieces(Tail(pieces))

InitBlocks ==
    /\ IdleFallbacks
    /\ IdleSegmenter
    /\ IdleParser
    /\ IdleLayout
    /\ IdleBibtex
    /\ IdleTables
    /\ IdleExtractors
    /\ IdleHttp
    /\ IdleCoordinator
    /\ IdleFingerprints
    /\ IdleCandidates
    /\ IdlePage
    /\ blk_case \in BlockTexts
    /\ blk_who = "none"
    /\ blk_blocks = <<>>

\* BibTeXParser.extract_bibtex_blocks(text)
ParserExtractBlocks ==
    /\ blk_who = "none"
    /\ blk_case # <<>>
    /\ blk_who' = "parser"
    /\ blk_blocks' = extract_bibtex_blocks(TextOfPieces(blk_case))
    /\ UNCHANGED blk_case
    /\ UNCHANGED nonblkvars

\* the entries ExtractionFallbackManager._extract_from_bibtex finds in the text
ManagerFindBlocks ==
    /\ blk_who = "none"
    /\ blk_case # <<>>
    /\ blk_who' = "manager"
    /\ blk_blocks' = FindBibtexEntries(TextOfPieces(blk_case), 1)
    /\ UNCHANGED blk_case
    /\ UNCHANGED nonblkvars

NextBlocks == ParserExtractBlocks \/ ManagerFindBlocks

SpecBlocks == InitBlocks /\ [][NextBlocks]_vars

----------------------------------------------------------------------------
(* Properties of apply_fallbacks *)

IsPrefix(p, q) == Len(p) <= Len(q) /\ SubSeq(q, 1, Len(p)) = p

\* both references carry a DOI and the two DOIs are equal ignoring letter case
SameDoi(r1, r2) ==
    TruthyStr(r1.doi) /\ TruthyStr(r2.doi) /\ Lower(r1.doi) = Lower(r2.doi)

\* the diagnostics appended since apply_fallbacks was entered
NewErrors ==
    SubSeq(extraction_errors, Len(entry.extraction_errors) + 1, Len(extraction_errors))

\* C1: when the result enters apply_fallbacks with at least
\* min_reference_threshold references, no stage is invoked and the references
\* and the diagnostics stay as they were; a stage is invoked only when the
\* count is strictly below the threshold.
C1_ThresholdGating ==
    /\ Len(entry.references) >= cfg.min_reference_threshold =>
          /\ invoked = {}
          /\ references = entry.references
          /\ extraction_errors = entry.extraction_errors
    /\ invoked # {} => Len(entry.references) < cfg.min_reference_threshold

C1_Witness ==
    /\ pc = "done"
    /\ Len(entry.references) >= cfg.min_reference_threshold
    /\ cfg.enable_bibtex_fallback

\* C2 as stated: after apply_fallbacks returns no two references of the result
\* have DOIs that are equal ignoring letter case, whoever produced them.
C2_NoDuplicateDoiAnywhere ==
    pc = "done" =>
        \A i, j \in 1..Len(references) :
            i # j => ~SameDoi(references[i], references[j])

\* C2 amended: after apply_fallbacks returns, no reference appended by a
\* fallback stage has a non-empty DOI equal, ignoring letter case, to the DOI
\* of any other reference of the result.
C2_NoAppendedDuplicateDoi ==
    pc = "done" =>
        \A j \in (Len(entry.references) + 1)..Len(references) :
            \A i \in 1..Len(references) :
                i # j => ~SameDoi(references[i], references[j])

\* a candidate whose DOI differs only in letter case from one of the result
\* was offered by a stage and rejected, and the call went on to add others
C2_Witness ==
    /\ pc = "done"
    /\ Len(references) > Len(entry.references)
    /\ \E r \in dropped : \E i \in 1..Len(references) :
           SameDoi(r, references[i]) /\ r.doi # references[i].doi

\* C3: apply_fallbacks only appends: the references on entry are a prefix of
\* the references on return, and the diagnostics on entry are a prefix of the
\* diagnostics on return.
C3_AppendOnly ==
    pc = "done" =>
        /\ IsPrefix(entry.references, references)
        /\ IsPrefix(entry.extraction_errors, extraction_errors)

C3_Witness ==
    /\ pc = "done"
    /\ entry.references # <<>>
    /\ entry.extraction_errors # <<>>
    /\ Len(references) > Len(entry.references)
    /\ Len(extraction_errors) > Len(entry.extraction_errors)

\* C4: on every return from apply_fallbacks, whatever the input result,
\* total_references equals len(references).
C4_TotalMatchesLength ==
    pc = "done" => total_references = Len(references)

\* C5: an exception raised while a stage is working does not reach the caller,
\* does not keep the later stages from running, and is recorded as a
\* diagnostic of that stage in extraction_errors.
StagePrefix(stage) ==
    CASE stage = "table" -> "Table fallback:"
      [] stage = "bibtex" -> "BibTeX fallback:"
      [] stage = "html" -> "HTML structure fallback:"

DiagnosticOf(msg) ==
    CASE msg \in {"Table fallback: No new unique references found",
                  "Table fallback: No reference tables detected"} -> "Table fallback:"
      [] msg \in {"BibTeX fallback: No new unique references found",
                  "BibTeX fallback: No BibTeX blocks detected"} -> "BibTeX fallback:"
      [] msg \in {"HTML structure fallback: No new unique references found",
                  "HTML structure fallback: No structured citation elements found"}
             -> "HTML structure fallback:"
      [] OTHER -> "other"

C5_StageFailureRecorded ==
    pc = "done" =>
        \A stage \in raised :
            \E k \in 1..Len(NewErrors) : DiagnosticOf(NewErrors[k]) = StagePrefix(stage)

----------------------------------------------------------------------------
(* Properties of the segmenters *)

\* the requirement of each strategy of the cascade, on the text alone
BracketRequirement(t) == Len(FindAll("bracket", t, 1)) >= 2

NumberedRequirement(t) == Len(FindAll("numbered", t, 1)) >= 2

DoiRequirement(t) ==
    /\ Len(FindAll("doi", t, 1)) >= 2
    /\ Len(KeepBlocks(Pieces(t, FindLookahead("doi", t, 1), 1), 20)) >= 2

YearRequirement(t) ==
    /\ Len(FindAll("year", t, 1)) >= 5
    /\ Len(KeepBlocks(Pieces(t, FindLookahead("year", t, 1), 1), 20)) >= 5

FirstQualifying(t) ==
    IF BracketRequirement(t) THEN "bracket"
    ELSE IF NumberedRequirement(t) THEN "numbered"
    ELSE IF DoiRequirement(t) THEN "doi"
    ELSE IF YearRequirement(t) THEN "year"
    ELSE "blank"

\* C7: a segmenter splits the text by the first strategy of the cascade
\* (bracket markers, numbered markers, DOI occurrences, year markers, blank
\* lines) whose requirement the text meets; in particular it uses the bracket
\* strategy exactly when the text has at least two line-start [n] markers.
C7_CascadePriority ==
    seg_who # "none" =>
        /\ seg_method = FirstQualifying(seg_text)
        /\ BracketRequirement(seg_text) <=> seg_method = "bracket"

\* n references, each beginning with its bracketed number, the first at the
\* start of the text and the others at the start of a new line
BracketedText(n) == TextOf(<<>>, <<NL>>, "bracket", n, "plain", 0)

\* C8: a text of N >= 2 references that each begin with [k], the first at the
\* start of the text and the others on new lines, is split into exactly N
\* candidates; the scenario text of two references is split into two.
C8_OneCandidatePerBracketedReference ==
    seg_who # "none" =>
        /\ \A n \in 2..MaxRun : seg_text = BracketedText(n) => Len(seg_refs) = n
        /\ seg_text = ScenarioText => Len(seg_refs) = 2

----------------------------------------------------------------------------
(* Properties of the field parser *)

\* the first 19xx/20xx token written in the parts of a text
ExpectedYear(in) ==
    LET ys == in.head.years \o in.year.years \o in.middle.years \o in.doi.years
    IN  IF ys = <<>> THEN NoneYear ELSE ys[1]

\* C9 (as stated): parse_reference sets year to the first 19xx/20xx token and
\* doi to the DOI token written in the text, without its trailing punctuation,
\* or leaves doi unset when none is written; the first scenario text gives
\* year 2023 and doi 10.1/a, the second year 2022 and no doi.
C9_DoiTokenExtracted ==
    par_state = "parsed" =>
        /\ par_ref.year = ExpectedYear(par_input)
        /\ par_ref.doi = par_input.doi.token
        /\ TextOfParts(par_input) = ScenarioRef1 =>
               par_ref.year = 2023 /\ par_ref.doi = <<"1", "0", ".", "1", "/", "a">>
        /\ TextOfParts(par_input) = ScenarioRef2 =>
               par_ref.year = 2022 /\ par_ref.doi = None

\* C9 (amended): parse_reference sets year to the first 19xx/20xx token and
\* doi to the written DOI token, without its trailing punctuation, only when
\* the token's registrant code has four digits or more, and leaves doi unset
\* otherwise; the first scenario text gives year 2023 and no doi (10.1/a has a
\* one-digit registrant code), the second year 2022 and no doi.
C9_YearAndLongDoiExtracted ==
    par_state = "parsed" =>
        /\ par_ref.year = ExpectedYear(par_input)
        /\ par_ref.doi = par_input.doi.doi
        /\ TextOfParts(par_input) = ScenarioRef1 =>
               par_ref.year = 2023 /\ par_ref.doi = None
        /\ TextOfParts(par_input) = ScenarioRef2 =>
               par_ref.year = 2022 /\ par_ref.doi = None

\* the first scenario text has been parsed
C9_Witness ==
    /\ par_state = "parsed"
    /\ TextOfParts(par_input) = ScenarioRef1
    /\ par_ref.year = 2023
    /\ par_ref.doi = None

----------------------------------------------------------------------------
(* Properties of the reading order *)

\* the words of the text, in the order the text lists them
ListedWords == Flatten([c \in 1..Len(lay_columns) |-> Flatten(lay_columns[c])])

IsSeparator(ch) == ch \in {SP, NL}

\* C10: the ordered text lists the columns from left to right by their
\* minimum x, inside a column the lines from top to bottom, and inside a line
\* the words in increasing x position; so the words of a column all come
\* before the words of the next column.
C10_ReadingOrder ==
    lay_state = "ordered" =>
        /\ LET NotSeparator(ch) == ~IsSeparator(ch)
           IN  SelectSeq(lay_text, NotSeparator)
                   = Flatten([i \in 1..Len(ListedWords) |-> ListedWords[i].text])
        /\ \A c \in 1..(Len(lay_columns) - 1) :
               MinX0(Flatten(lay_columns[c])) < MinX0(Flatten(lay_columns[c + 1]))
        /\ \A c \in 1..Len(lay_columns) :
               \A l \in 1..(Len(lay_columns[c]) - 1) :
                   lay_columns[c][l][1].top < lay_columns[c][l + 1][1].top
        /\ \A c \in 1..Len(lay_columns) :
               \A l \in 1..Len(lay_columns[c]) :
                   \A i \in 1..(Len(lay_columns[c][l]) - 1) :
                       lay_columns[c][l][i].x0 < lay_columns[c][l][i + 1].x0

----------------------------------------------------------------------------
(* Properties of the BibTeX parsers *)

\* C11: a Reference built from a BibTeX entry has its publication_type mapped
\* from the entry type, its year equal to the 19xx/20xx value of the year
\* field and its authors equal to the author field split on ' and '; the
\* scenario entry gives year 2023, authors ['A, B'] and type 'journal'.
C11_BibtexFieldsMapped ==
    (bib_who # "none" /\ bib_ref.returned) =>
        /\ bib_ref.publication_type = PublicationType(LowerStr(bib_input.type))
        /\ bib_ref.year = bib_input.year.value
        /\ bib_ref.authors = bib_input.author.names
        /\ EntryText(bib_input) = ScenarioEntry =>
               /\ bib_ref.year = 2023
               /\ bib_ref.authors = << <<"A", ",", SP, "B">> >>
               /\ bib_ref.publication_type = <<"j", "o", "u", "r", "n", "a", "l">>

----------------------------------------------------------------------------
(* Properties of the table classifiers *)

\* the cells with text among the given rows
TextCells(rows) == SelectSeq(Flatten(rows), LAMBDA c : IsTextCell(c.text))

MarkerCount(cells) == Cardinality({n \in 1..Len(cells) : cells[n].marker})

\* C12: a table is classified reference-like when at least 30% of the cells
\* sampled from its first ten rows carry a reference marker, and a table none
\* of whose cells carries a marker is never classified reference-like.
C12_TableClassification ==
    tab_who # "none" =>
        LET sampled == TextCells(Take(RowsOf(tab_input), SampledRows))
        IN  /\ (sampled # <<>> /\ 10 * MarkerCount(sampled) >= 3 * Len(sampled))
                   => tab_result
            /\ MarkerCount(TextCells(RowsOf(tab_input))) = 0 => ~tab_result

----------------------------------------------------------------------------
(* Properties of PDFExtractor.extract and WebExtractor.extract *)

\* the primary extraction of the PDF was reached and yielded ext_input.primary
PrimaryYielded ==
    /\ ext_input.who = "pdf"
    /\ ext_state = "returned"
    /\ ext_input.exists = "yes"
    /\ ext_input.suffix_pdf
    /\ ext_input.fault = "none"

\* C13: PDFExtractor.extract calls a fallback extractor only when the primary
\* extraction yielded fewer references than the threshold; at or above the
\* threshold none is called and the result is exactly the primary references.
C13_FallbackOnlyBelowThreshold ==
    PrimaryYielded =>
        /\ ext_invoked # {} =>
               Len(ext_input.primary) < DefaultConfig.min_reference_threshold
        /\ Len(ext_input.primary) >= DefaultConfig.min_reference_threshold =>
               /\ ext_invoked = {}
               /\ ext_result.references =
                      [n \in 1..Len(ext_input.primary) |->
                          ExtractedRef(ext_input.primary[n], "none")]

\* the source cannot be read: one of the terminal failures of extract
TerminalFailure ==
    IF ext_input.who = "pdf"
    THEN ext_input.exists # "yes" \/ ~ext_input.suffix_pdf \/ ext_input.fault # "none"
    ELSE ~ext_input.valid_url \/ ext_input.fault # "none"

\* C15: no exception escapes PDFExtractor.extract or WebExtractor.extract, and
\* on every terminal failure the ExtractionResult returned has no references,
\* total_references = 0 and exactly one extraction_errors entry.
C15_FailureIsOneError ==
    (ext_input.who # "none" /\ ext_state # "ready") =>
        /\ ext_state = "returned"
        /\ TerminalFailure =>
               /\ ext_result.references = <<>>
               /\ ext_result.total_references = 0
               /\ Len(ext_result.extraction_errors) = 1

----------------------------------------------------------------------------
(* Properties of HTTPClient.request *)

\* the attempts request may make: max_retries, and at least one
AllowedAttempts == IF http_client.max_retries < 1 THEN 1 ELSE http_client.max_retries

Is2xx(call) == ~call.outcome.exc /\ call.outcome.status \in 200..299

IsRetryable(call) ==
    call.outcome.exc \/ call.outcome.status \in {403, 429, 500, 502, 503, 504}

\* the status of the last response among the calls (NoStatus if none)
RECURSIVE LastStatus(_)
LastStatus(calls) ==
    IF calls = <<>> THEN NoStatus
    ELSE IF ~calls[Len(calls)].outcome.exc THEN calls[Len(calls)].outcome.status
    ELSE LastStatus(SubSeq(calls, 1, Len(calls) - 1))

C16_Attempts ==
    LET n == Len(http_calls)
    IN  /\ n <= AllowedAttempts
        /\ http_pc # "ready" => n >= 1
        /\ \A k \in 1..(n - 1) : IsRetryable(http_calls[k]) /\ ~Is2xx(http_calls[k])
        /\ (http_pc = "ready" /\ n >= 1) => (IsRetryable(http_calls[n]) /\ ~Is2xx(http_calls[n]))
        /\ http_pc = "ready" => n < AllowedAttempts
        /\ http_pc = "returned" => Is2xx(http_calls[n])
        /\ http_pc = "raised" =>
               /\ ~Is2xx(http_calls[n])
               /\ n = AllowedAttempts \/ ~IsRetryable(http_calls[n])
               /\ http_last.status = LastStatus(http_calls)
        /\ (http_pc # "ready" /\ \A k \in 1..n : LastStatus(<<http_calls[k]>>) = 403) =>
               (n = AllowedAttempts /\ http_pc = "raised")

\* C16: request ends after at least one and at most max_retries attempts; it
\* returns the first 2xx response, retries only after a transport exception or
\* a retryable status while attempts remain, and otherwise raises
\* HTTPClientError with the last status; a server that always answers 403 is
\* contacted exactly max_retries times.
C16_RequestTerminates == [](http_client.n_agents > 0 => C16_Attempts) /\ <>(http_pc # "ready")

\* all max_retries attempts were answered 403 and request has raised
C16_Witness ==
    /\ http_pc = "raised"
    /\ http_client.n_agents > 0
    /\ http_client.max_retries = MaxRetries
    /\ Len(http_calls) = MaxRetries
    /\ \A k \in 1..Len(http_calls) : LastStatus(<<http_calls[k]>>) = 403
    /\ http_last.status = 403

\* C17: the k-th attempt of a request is sent with the agent (k - 1) mod n of
\* the pool of n agents, whatever outcome caused the retries.
C17_AgentRotatesEveryRetry ==
    \A k \in 1..Len(http_calls) :
        http_calls[k].agent = UserAgentPool[((k - 1) % http_client.n_agents) + 1]

RECURSIVE Power(_, _)
Power(b, e) == IF e = 0 THEN 1 ELSE b * Power(b, e - 1)

\* C18: request does not wait before the first attempt, waits retry_delay
\* before the second, and before attempt k waits
\* retry_delay * backoff_factor^(k - 2).
C18_BackoffSchedule ==
    \A k \in 1..Len(http_calls) :
        IF k = 1 THEN ~http_calls[k].waited
        ELSE /\ http_calls[k].waited
             /\ http_calls[k].slept =
                    (IF http_client.retry_delay < 0 THEN 0 ELSE http_client.retry_delay)
                    * Power(IF http_client.backoff_factor < 1 THEN 1
                            ELSE http_client.backoff_factor, k - 2)

----------------------------------------------------------------------------
(* Properties of DownloadCoordinator._try_downloaders *)

PriorityOrder == <<"DOIResolver", "ArxivDownloader", "PubMedDownloader", "SciHubDownloader">>

Downloaded(k) == dl_log[k].can = "yes" /\ dl_log[k].outcome = "success"

\* C19: the downloaders are tried in priority order, those that cannot
\* download are skipped, the first SUCCESS is returned and no later downloader
\* is tried, any other outcome moves on to the next, and when none succeeds
\* a DownloadResult FAILED 'All download sources failed' is returned, not raised.
C19_FallbackChain ==
    dl_pc # "idle" =>
        /\ \A k \in 1..Len(dl_log) :
               /\ dl_log[k].downloader = PriorityOrder[k]
               /\ dl_log[k].can # "yes" => dl_log[k].outcome = "not_called"
               /\ k < Len(dl_log) => ~Downloaded(k)
        /\ (dl_log # <<>> /\ Downloaded(Len(dl_log))) =>
               (dl_pc = "returned" /\ dl_result.status = "success")
        /\ (dl_log # <<>> /\ ~Downloaded(Len(dl_log)) /\ Len(dl_log) < Len(PriorityOrder)) =>
               dl_pc = "loop"
        /\ dl_pc # "raised"
        /\ (dl_pc # "loop" /\ \A k \in 1..Len(dl_log) : ~Downloaded(k)) =>
               /\ dl_pc = "returned"
               /\ dl_result.status = "failed"
               /\ dl_result.error_message = "All download sources failed"

----------------------------------------------------------------------------
(* Properties of the de-duplication of apply_fallbacks *)

\* the references appended since apply_fallbacks was entered
AppendedRefs == SubSeq(references, Len(entry.references) + 1, Len(references))

InputFingerprints == {Fingerprint(entry.references[i]) : i \in 1..Len(entry.references)}

\* pairwise distinct fingerprints, none of them a fingerprint of the input
FreshAndDistinct(refs) ==
    /\ \A i \in 1..Len(refs) : Fingerprint(refs[i]) \notin InputFingerprints
    /\ \A i, j \in 1..Len(refs) : i # j => Fingerprint(refs[i]) # Fingerprint(refs[j])

\* C20: the references the fallback stages accept, and so the references one
\* call of apply_fallbacks appends, have pairwise distinct fingerprints, all
\* absent from the fingerprint set of the references the call was given.
C20_DedupDiscipline ==
    /\ FreshAndDistinct(fallback_results)
    /\ pc = "done" => FreshAndDistinct(AppendedRefs)

\* two stages have each added a reference, and candidates were rejected
C20_Witness ==
    /\ pc = "done"
    /\ Len(AppendedRefs) >= 2
    /\ Cardinality(added) >= 2
    /\ entry.references # <<>>
    /\ dropped # {}

----------------------------------------------------------------------------
(* Properties of the order of the fallback stages *)

\* the stages apply_fallbacks may have run when it stands before each stage
RunBefore(where) ==
    CASE where = "start" -> {}
      [] where = "table" -> {}
      [] where = "bibtex" -> {"table"}
      [] where = "html" -> {"table", "bibtex"}
      [] OTHER -> {"table", "bibtex", "html"}

\* apply_fallbacks of the fallback manager keeps the order and the conditions
C21_ManagerStages ==
    /\ invoked \subseteq RunBefore(pc)
    /\ "table" \in invoked => (source_type = "pdf" /\ cfg.enable_table_fallback)
    /\ "bibtex" \in invoked => cfg.enable_bibtex_fallback
    /\ "html" \in invoked => (source_type = "web" /\ cfg.enable_html_structure_fallback)

\* C21: the fallback stages run in the order Table, BibTeX, HTML structure;
\* Table only for a PDF, HTML only for a web page, BibTeX for both, and a
\* disabled stage never: so for a PDF the BibTeX fallback is consulted only
\* after the Table fallback has been.
C21_StageOrder ==
    /\ pc # "idle" => C21_ManagerStages
    /\ (ext_input.who = "pdf" /\ \E m \in ext_invoked : m \in {"has_bibtex", "extract_bibtex_blocks", "parse_bibtex_entry"}) =>
           "has_tables" \in ext_invoked

----------------------------------------------------------------------------
(* Properties of the diagnostics of the fallback stages *)

\* the name a stage puts at the head of its diagnostics (fallbacks.py:153-183)
StageName(stage) ==
    CASE stage = "table" -> "Table fallback:"
      [] stage = "bibtex" -> "BibTeX fallback:"
      [] stage = "html" -> "HTML structure fallback:"

\* how many of the diagnostics appended by this call start with the name
NamedDiagnostics(stage) ==
    Cardinality({i \in 1..Len(NewErrors) :
        /\ Len(NewErrors[i]) >= Len(StageName(stage))
        /\ SubSeq(NewErrors[i], 1, Len(StageName(stage))) = StageName(stage)})

\* C22: every stage that ran and contributed no new unique reference has
\* appended exactly one diagnostic starting with its name, and a stage that
\* contributed at least one new reference has appended none.
C22_OneDiagnosticPerEmptyStage ==
    pc # "idle" =>
        \A stage \in invoked :
            IF stage \in added
            THEN NamedDiagnostics(stage) = 0
            ELSE NamedDiagnostics(stage) = 1

\* a finished call in which one stage added references and another, which
\* ran as well, found only duplicates or nothing
C22_Witness ==
    /\ pc = "done"
    /\ added # {}
    /\ invoked \ added # {}
    /\ \E stage \in invoked \ added : NamedDiagnostics(stage) = 1

----------------------------------------------------------------------------
(* Properties of the fingerprints *)

\* the fingerprint made of the expected pieces, the raw one from raw_piece
ExpectedFingerprint(raw_piece) ==
    IF fp_case.doi.present
    THEN <<"doi:", fp_case.doi.lowered>>
    ELSE IF fp_case.title.present /\ fp_case.year.present
         THEN <<"title_year:", fp_case.title.normalized, fp_case.year.value>>
         ELSE <<"raw:", raw_piece>>

\* C23 as stated: the fingerprint is 'doi:' + lower-cased DOI when a DOI is
\* present, otherwise 'title_year:' + normalized title + '_' + year when both
\* are present, otherwise 'raw:' + the normalized first 100 characters of
\* raw_text; and the candidate's fingerprint in _deduplicate_references is
\* the one _create_reference_fingerprint_set computes.
C23_FingerprintOfFirst100 ==
    /\ "accepted" \in fp_done =>
           fp_accepted = {ExpectedFingerprint(fp_case.raw.first100)}
    /\ "candidate" \in fp_done =>
           fp_candidate = {ExpectedFingerprint(fp_case.raw.first100)}

\* C23, amended: as above, but the raw fingerprint is 'raw:' + the first 100
\* characters of the lower-cased and stripped raw_text, with the whitespace
\* runs inside those 100 characters collapsed afterwards.
C23_Fingerprint ==
    /\ "accepted" \in fp_done =>
           fp_accepted = {ExpectedFingerprint(fp_case.raw.stripped100)}
    /\ "candidate" \in fp_done =>
           fp_candidate = {ExpectedFingerprint(fp_case.raw.stripped100)}
    /\ fp_done = {"accepted", "candidate"} => fp_accepted = fp_candidate

\* both functions have been applied to a reference that has only a raw text,
\* longer than 100 characters and starting with blanks
C23_Witness ==
    /\ fp_done = {"accepted", "candidate"}
    /\ ~fp_case.doi.present
    /\ ~fp_case.title.present
    /\ Len(fp_case.raw.value) > RawFingerprintLen
    /\ fp_case.raw.first100 # fp_case.raw.stripped100
    /\ fp_accepted = {<<"raw:", fp_case.raw.stripped100>>}

----------------------------------------------------------------------------
(* Properties of the candidate filter *)

CandidateWords == cand_in.head.words + cand_in.feature.words + cand_in.filler

\* the decision the rule gives when a block counts as having a DOI by
\* has_doi, and a URL by caption_url in the caption rule and by url in the
\* acceptance rule
Decision(has_doi, caption_url, url) ==
    IF Len(Strip(CandidateText(cand_in))) < 15
    THEN "rejected"
    ELSE IF /\ cand_in.head.caption
            /\ ~(CandidateWords >= 15 \/ cand_in.feature.year \/ has_doi \/ caption_url)
         THEN "rejected"
         ELSE IF cand_in.feature.year \/ has_doi \/ cand_in.feature.authors \/ url
              THEN "accepted"
              ELSE IF CandidateWords > 8 THEN "accepted" ELSE "rejected"

\* C24 as stated: a candidate is rejected if shorter than 15 characters; if
\* it starts with a caption keyword it is rejected unless it has at least 15
\* words or contains a year, DOI or URL; otherwise it is accepted if it
\* contains a year, DOI, author-initial pattern or URL; failing that it is
\* accepted exactly when it has more than 8 words.
C24_FilterOnDoiAndUrl ==
    cand_result # "none" =>
        cand_result = Decision(cand_in.feature.doi, cand_in.feature.url, cand_in.feature.url)

\* C24, amended: the same decision, where "DOI" is the letters "doi" in any
\* case or "10." followed by at least four digits, and "URL" is the letters
\* "http" in any case in the caption rule and "http://" or "https://" in the
\* acceptance rule.
C24_FilterDecision ==
    cand_result # "none" =>
        cand_result = Decision(cand_in.feature.doi_marker, cand_in.feature.http_marker,
                               cand_in.feature.url_marker)

\* a caption of nine to fourteen words that mentions "http" without a URL has
\* passed the caption rule and has been accepted for its word count
C24_Witness ==
    /\ cand_result = "accepted"
    /\ cand_in.head.caption
    /\ cand_in.feature.http_marker /\ ~cand_in.feature.url_marker
    /\ CandidateWords > 8 /\ CandidateWords < 15

----------------------------------------------------------------------------
(* Properties of the line grouping *)

PageWords == {pg_words[i] : i \in 1..Len(pg_words)}

\* the line of the result that holds the word w
LinesOf(w) == {l \in 1..Len(pg_result) : \E k \in 1..Len(pg_result[l]) : pg_result[l][k] = w}

\* how many times w occurs in the result
Occurrences(w) ==
    Cardinality({p \in (1..Len(pg_result)) \X (1..MaxLineWords + 1) :
                    p[2] <= Len(pg_result[p[1]]) /\ pg_result[p[1]][p[2]] = w})

\* from the higher of the two words one gets to the lower in steps of less
\* than 3 units, from word to word
Linked(a, b) ==
    LET lo == IF a.top <= b.top THEN a.top ELSE b.top
        hi == IF a.top <= b.top THEN b.top ELSE a.top
    IN  \A w \in PageWords :
            (lo <= w.top /\ w.top < hi) =>
                \E v \in PageWords : w.top < v.top /\ v.top - w.top < 3

\* C25 as stated: two words are in the same line if and only if their top
\* positions differ by less than 3 units, and every input word lands in
\* exactly one line.
C25_SameLineIffClose ==
    pg_op = "lines" =>
        /\ \A a, b \in PageWords :
               (LinesOf(a) = LinesOf(b)) <=> (Abs(a.top - b.top) < 3)
        /\ \A w \in PageWords : Occurrences(w) = 1

\* C25, amended: two words whose top positions differ by less than 3 units
\* are in the same line; two words are in the same line if and only if a
\* chain of words leads from one to the other in steps of less than 3 units;
\* and every input word lands in exactly one line.
C25_LineGrouping ==
    pg_op = "lines" =>
        /\ \A a, b \in PageWords :
               /\ Abs(a.top - b.top) < 3 => LinesOf(a) = LinesOf(b)
               /\ (LinesOf(a) = LinesOf(b)) <=> Linked(a, b)
        /\ \A w \in PageWords : Occurrences(w) = 1

\* words more than 3 units apart, linked by words between them, have been put
\* in one line
C25_Witness ==
    /\ pg_op = "lines"
    /\ Len(pg_result) = 1
    /\ \E a, b \in PageWords : b.top - a.top > 3

----------------------------------------------------------------------------
(* Properties of the column detection *)

\* the center of a word, cut to an integer
CenterX(w) == (w.x0 + w.x1) \div 2

CenterXs == {CenterX(w) : w \in PageWords}

\* the left ends of the gaps between neighbouring centers that are wider
\* than a tenth of the page width
WideGaps ==
    {x \in CenterXs :
        \E y \in CenterXs :
            /\ x < y
            /\ \A z \in CenterXs : ~(x < z /\ z < y)
            /\ 10 * (y - x) > pg_width}

\* the columns of the result that hold the word w
ColumnsOf(w) ==
    {c \in 1..Len(pg_result) : \E k \in 1..Len(pg_result[c]) : pg_result[c][k] = w}

\* C26: for a non-empty word list _detect_columns returns 1 to 3 columns, all
\* non-empty, and every word is in exactly one of them; words are in
\* different columns only if a gap wider than 10% of the page width lies
\* between their centers; and the number of boundaries is the number of such
\* gaps, but two when more than two gaps qualify.
C26_ColumnDetection ==
    pg_op = "columns" =>
        /\ Len(pg_result) \in 1..3
        /\ \A c \in 1..Len(pg_result) : pg_result[c] # <<>>
        /\ \A w \in PageWords :
               /\ Cardinality(ColumnsOf(w)) = 1
               /\ \A c \in ColumnsOf(w) :
                      Cardinality({k \in 1..Len(pg_result[c]) : pg_result[c][k] = w}) = 1
        /\ \A a, b \in PageWords :
               (ColumnsOf(a) # ColumnsOf(b) /\ CenterX(a) <= CenterX(b)) =>
                   \E x \in WideGaps : CenterX(a) <= x /\ x < CenterX(b)
        /\ Len(pg_result) - 1 =
               (IF Cardinality(WideGaps) > 2 THEN 2 ELSE Cardinality(WideGaps))

\* three wide gaps on the page, three columns returned
C26_Witness ==
    /\ pg_op = "columns"
    /\ Cardinality(WideGaps) > 2
    /\ Len(pg_result) = 3

----------------------------------------------------------------------------
(* Properties of the caption filter *)

\* the words of the lines of the page that are not dropped, in the order of
\* the lines, when a line counts as a caption by its field "by"
RECURSIVE KeptWords(_, _)
KeptWords(n, by) ==
    IF n > Len(pg_case) THEN <<>>
    ELSE LET case == pg_case[n]
             drop == /\ case[by]
                     /\ case.count < 6
                     /\ ~case.year /\ ~case.doi /\ ~case.numbering
         IN  (IF drop THEN <<>> ELSE LineWords(case, n)) \o KeptWords(n + 1, by)

\* C27 as stated: a line is dropped if and only if it starts with one of
\* figure, fig., fig , table, scheme, has fewer than 6 words, and has no year
\* pattern, no DOI token and no leading reference numbering; every other
\* line is kept, with all of its words and in its original position.
C27_DropsFiveKeywords ==
    pg_op = "captions" => pg_result = KeptWords(1, "keyword")

\* C27, amended: the same, for lines that start with one of figure, fig.,
\* fig , table, scheme, appendix, supplementary, supplement.
C27_CaptionFilter ==
    pg_op = "captions" => pg_result = KeptWords(1, "listed")

\* a short caption line has been dropped from between two lines that were
\* kept, one of them a six-word line that starts with a keyword
C27_Witness ==
    /\ pg_op = "captions"
    /\ Len(pg_case) = 3
    /\ pg_case[2].keyword /\ pg_case[2].count < 6
    /\ ~pg_case[2].year /\ ~pg_case[2].doi
    /\ pg_case[1].keyword /\ pg_case[1].count = 6
    /\ ~pg_case[3].listed
    /\ pg_result = LineWords(pg_case[1], 1) \o LineWords(pg_case[3], 3)

----------------------------------------------------------------------------
(* Properties of the BibTeX block extraction *)

\* the balanced entries of the pieces of the text, in order of occurrence
RECURSIVE BalancedEntries(_)
BalancedEntries(pieces) ==
    IF pieces = <<>> THEN <<>>
    ELSE [n \in 1..Len(Head(pieces).blocks) |-> Chars(Head(pieces).blocks[n])]
             \o BalancedEntries(Tail(pieces))

\* extract_bibtex_blocks returns the balanced entries, whole and in order
C28_ParserBlocks ==
    blk_who = "parser" => blk_blocks = BalancedEntries(blk_case)

\* C28: for each '@type{' occurrence the extractor returns the text from '@'
\* through the first '}' at which the brace depth is back at zero, so an
\* entry with a nested brace group in a field value is returned whole; an
\* occurrence whose braces never balance yields no block; the blocks are in
\* order of occurrence.
C28_BalancedBlocks ==
    blk_who # "none" => blk_blocks = BalancedEntries(blk_case)

----------------------------------------------------------------------------
(* Properties of a second call of apply_fallbacks *)

\* C29: apply_fallbacks called a second time on its own output, with the
\* same source_text, source_type, pdf_object and html_content, leaves
\* result.references unchanged, whether the threshold stops the call or the
\* stages run again.
C29_SecondCallAddsNothing ==
    (run = 2 /\ pc # "idle") => references = first_run

\* the first call added a reference from a fallback stage, and the second
\* call has run the stages again and rejected their candidates
C29_Witness ==
    /\ run = 2
    /\ pc = "done"
    /\ invoked # {}
    /\ dropped # {}
    /\ \E i \in 1..Len(first_run) : first_run[i] \notin PrimaryPool

----------------------------------------------------------------------------
(* Properties of the candidates of PDFExtractor._split_references *)

\* the text holds a character that is not whitespace
NonBlank(text) == \E i \in 1..Len(text) : text[i] \notin Whitespace

\* C30 (as stated): for every non-blank text, _split_references returns at
\* least one candidate, whichever strategy is selected.
C30_AlwaysACandidate ==
    (seg_who = "pdf" /\ NonBlank(seg_text)) => seg_refs # <<>>

\* C30 (amended): for every non-blank text, _split_references returns at
\* least one candidate when the DOI, year or blank-line strategy is selected,
\* and the blank-line strategy returns the whole text as the single candidate
\* when it leaves no block above its minimum length; the bracketed and the
\* numbered strategy return only blocks above the minimum length, which may
\* be none.
C30_CandidatesByStrategy ==
    (seg_who = "pdf" /\ NonBlank(seg_text)) =>
        /\ seg_method \in {"doi", "year", "blank"} => seg_refs # <<>>
        /\ seg_method \in {"doi", "year"} =>
               \A i \in 1..Len(seg_refs) : Len(seg_refs[i]) > MinLongBlockLen
        /\ seg_method \in {"bracket", "numbered"} =>
               \A i \in 1..Len(seg_refs) : Len(seg_refs[i]) > MinBlockLen
        /\ seg_method = "blank" =>
               \/ \A i \in 1..Len(seg_refs) : Len(seg_refs[i]) > MinBlockLen
               \/ seg_refs = <<seg_text>>

\* the blank-line strategy was selected for a text without any block above
\* the minimum length and returned the whole text
C30_Witness ==
    /\ seg_who = "pdf"
    /\ seg_method = "blank"
    /\ NonBlank(seg_text)
    /\ Len(seg_text) <= MinBlockLen
    /\ seg_refs = <<seg_text>>

====
